---- MODULE Spec2Model ----
(***************************************************************************)
(* Bulk loaders of the routeza CMS: the seed importers (pages, articles,   *)
(* redirects), the page sync scripts and the in-place block migration,     *)
(* each a sequential batch runner talking to a remote REST store.          *)
(*                                                                         *)
(* Text values are sequences of one-character strings.                     *)
(***************************************************************************)
EXTENDS Integers, Sequences, FiniteSets, TLC

VARIABLES
    script,          \* which program is running
    STRAPI_TOKEN,    \* process.env.STRAPI_TOKEN
    INPUT_PATH,      \* the input file argument (redirects: CSV_PATH)
    file,            \* the file at INPUT_PATH
    DRY_RUN,         \* process.env.DRY_RUN === "true"
    UPSERT_MODE,     \* <X>_UPSERT_MODE, lower-cased
    FORCE_PUBLISH,   \* process.env.FORCE_PUBLISH === "true"
    FORCE_UNPUBLISH, \* process.env.FORCE_UNPUBLISH === "true" (pages importer)
    ARTICLE_TYPE,    \* process.argv[2] of the article scripts, trimmed and
                     \* lower-cased: blog | news
    ONLY_WHEN_EMPTY_BLOCKS,  \* migrations: ONLY_WHEN_EMPTY_BLOCKS is not "false"
    CLEAR_LEGACY_CONTENT,    \* process.env.CLEAR_LEGACY_CONTENT === "true"
    PAGE_SIZE,       \* migrations: Number(process.env.PAGE_SIZE || 100)
    rows,            \* the parsed input rows (migrations: the fetched entries)
    page, pageCount, \* migrations: the fetch loop of fetchAllPages
    store,           \* the remote collection the script works on
    tagStore,        \* the remote content-tags collection
    nextId,          \* the store's id generator
    pc,              \* position of the run
    idx,             \* 1-based index of the row being processed
    created, updated, skipped, failed,
    emptyContent,    \* sync:page-blocks: rows with no content to migrate
    skippedNoContent, skippedHasBlocks, skippedNoBlocksProduced,
    seen,            \* seenRoutes / seenSlugs
    key,             \* natural key of the row being processed
    payload,         \* body of the write the row being processed asks for
    existing,        \* result of the lookup of the row being processed
    tagNames, tagIds,\* articles: tags still to resolve, ids resolved so far
    requests,        \* every HTTP request issued by this run, in order
    log,             \* console output of this run, in order
    exitCode,        \* process exit status (-1 while running)
    faults,          \* number of HTTP requests that failed so far
    runNo,           \* how many times the script was started
    prev             \* what the previous run of the script reported

cfgVars   == <<script, STRAPI_TOKEN, INPUT_PATH, file, UPSERT_MODE, FORCE_PUBLISH, FORCE_UNPUBLISH,
               ARTICLE_TYPE, ONLY_WHEN_EMPTY_BLOCKS, CLEAR_LEGACY_CONTENT,
               PAGE_SIZE>>
inputVars == <<rows, page, pageCount>>
countVars == <<created, updated, skipped, failed, emptyContent,
               skippedNoContent, skippedHasBlocks, skippedNoBlocksProduced>>
rowVars   == <<key, payload, existing, tagNames, tagIds>>

vars == <<cfgVars, inputVars, DRY_RUN, store, tagStore, nextId, pc, idx,
          countVars, seen, rowVars, requests, log, exitCode, faults, runNo,
          prev>>

(***************************************************************************)
(* Bounds of the model.                                                    *)
(***************************************************************************)
MaxRows   == 2    \* longest input
MaxStore  == 1    \* most entries initially in the remote collection
MaxFaults == 1    \* most HTTP requests that fail
MaxConfigErrors == 1  \* most settings that are wrong at once
MaxText   == 6    \* longest CSV text handed to the parsers alone
MaxContent == 6   \* longest content handed to the block converter alone
MaxConversions == 2  \* most conversions of one content
MaxLines == 2     \* most lines of a content made of list lines
MaxTitle == 5     \* longest title handed to the articles importer alone
MaxEntries == 3   \* most entries of the collection a migration alone pages through
MaxPath == 3      \* longest path handed to the importers alone
MaxMarkup == 4    \* longest short content handed to the summary hook

(***************************************************************************)
(* JavaScript values.                                                      *)
(***************************************************************************)
undefined == "undefined"      \* an absent id / documentId
null      == [null |-> TRUE]  \* JS null (a lookup with no match)
NOW       == [iso |-> "now"]  \* new Date().toISOString()

BOM == "<U+FEFF>"             \* the code unit 0xFEFF, one symbol of a text

\* what String.prototype.trim() strips and \s matches
WS == {" ", "\n", "\t", "\r", BOM}

RECURSIVE trimStart(_)
trimStart(s) == IF s # <<>> /\ Head(s) \in WS THEN trimStart(Tail(s)) ELSE s

RECURSIVE trimEnd(_)
trimEnd(s) ==
    IF s # <<>> /\ s[Len(s)] \in WS THEN trimEnd(SubSeq(s, 1, Len(s) - 1)) ELSE s

\* String.prototype.trim
trim(s) == trimEnd(trimStart(s))

UpperAZ == <<"A","B","C","D","E","F","G","H","I","J","K","L","M",
            "N","O","P","Q","R","S","T","U","V","W","X","Y","Z">>
LowerAZ == <<"a","b","c","d","e","f","g","h","i","j","k","l","m",
            "n","o","p","q","r","s","t","u","v","w","x","y","z">>
Digits  == {"0","1","2","3","4","5","6","7","8","9"}

Lower(c) ==
    IF \E i \in 1..Len(UpperAZ) : UpperAZ[i] = c
    THEN LowerAZ[CHOOSE i \in 1..Len(UpperAZ) : UpperAZ[i] = c]
    ELSE c

\* String.prototype.toLowerCase
toLowerCase(s) == [i \in 1..Len(s) |-> Lower(s[i])]

\* String(row.f ?? "")
Str(row, f) == IF f \in DOMAIN row THEN row[f] ELSE <<>>

\* a later object spread overrides an earlier one: {...a, ...b}
Merge(a, b) ==
    [f \in DOMAIN a \cup DOMAIN b |-> IF f \in DOMAIN b THEN b[f] ELSE a[f]]

\* the sequences over S of length lo..hi
SeqsOf(S, lo, hi) == UNION {[1..n -> S] : n \in lo..hi}

(***************************************************************************)
(* Record Normalizer: the helpers shared by the scripts.                   *)
(***************************************************************************)
RECURSIVE stripTrailingSlashes(_)
\* s.replace(/\/+$/, "")
stripTrailingSlashes(s) ==
    IF s # <<>> /\ s[Len(s)] = "/"
    THEN stripTrailingSlashes(SubSeq(s, 1, Len(s) - 1))
    ELSE s

\* normalizePath of the pages importer, the sync scripts and the migration
normalizePath(pathname) ==
    LET trimmed == trim(pathname) IN
    IF trimmed = <<>> \/ trimmed = <<"/">> THEN <<"/">>
    ELSE LET withLeading ==
                 IF Head(trimmed) = "/" THEN trimmed ELSE <<"/">> \o trimmed
         IN  stripTrailingSlashes(withLeading)

\* normalisePath of the redirects importer
normalisePath(value) ==
    IF value = <<>> THEN <<>>
    ELSE LET trimmed == trim(value) IN
         IF trimmed = <<>> THEN <<>>
         ELSE IF Head(trimmed) = "/" THEN trimmed ELSE <<"/">> \o trimmed

TrueWords  == {<<"t","r","u","e">>, <<"1">>, <<"y","e","s">>, <<"y">>}

\* parseBoolean(row.f, fallback)
parseBoolean(row, f, fallback) ==
    IF f \notin DOMAIN row \/ row[f] = <<>> THEN fallback
    ELSE LET normalized == toLowerCase(trim(row[f])) IN
         IF normalized \in TrueWords THEN TRUE
         ELSE IF normalized \in {<<"f","a","l","s","e">>, <<"0">>, <<"n","o">>, <<"n">>}
              THEN FALSE
         ELSE fallback

\* JSON.parse on the texts of the model: what it returns, or that it throws
JsonTruthy(text) == text # <<"0">>

\* safeJson(row.schemaJson, row.__line): throws on text that is no JSON
safeJsonThrows(row) ==
    LET trimmed == trim(Str(row, "schemaJson")) IN
    trimmed # <<>> /\ trimmed \notin {<<"{","}">>, <<"0">>}

\* safeJson(row.schemaJson, row.__line): the value when it does not throw
\* (<<>> stands for undefined)
safeJson(row) == trim(Str(row, "schemaJson"))

Falsy(v) == v \in {undefined, "", "0"}

\* a variant of getEntryId that prefers the numeric id to the documentId
getEntryIdPrefersId(entry) ==
    IF entry = null THEN undefined
    ELSE IF entry.id # undefined THEN entry.id
    ELSE entry.documentId

\* entry?.documentId ?? entry?.id ?? null
getEntryId(entry) ==
    IF entry = null THEN undefined
    ELSE IF entry.documentId # undefined THEN entry.documentId
    ELSE entry.id

(***************************************************************************)
(* Pages importer: payload of a row.                                       *)
(***************************************************************************)
\* a variant of publishMarker in which the unpublish request wins
publishMarkerUnpublishFirst(forcePublish, shouldUnpublish) ==
    IF shouldUnpublish THEN [publishedAt |-> null]
    ELSE IF forcePublish THEN [publishedAt |-> NOW]
    ELSE <<>>

\* ...(FORCE_PUBLISH ? { publishedAt: <now> } : shouldUnpublish
\*      ? { publishedAt: null } : {})
publishMarker(forcePublish, shouldUnpublish) ==
    IF forcePublish THEN [publishedAt |-> NOW]
    ELSE IF shouldUnpublish THEN [publishedAt |-> null]
    ELSE <<>>

mapRowToPayload(row, forcePublish, forceUnpublish) ==
    LET routePath       == normalizePath(Str(row, "routePath"))
        pageName        == trim(Str(row, "pageName"))
        metaTitle       == trim(Str(row, "metaTitle"))
        metaDescription == trim(Str(row, "metaDescription"))
        canonicalUrl    == trim(Str(row, "canonicalUrl"))
        noindex         == parseBoolean(row, "noindex", FALSE)
        schemaJson      == safeJson(row)
        hasSchema       == schemaJson # <<>> /\ JsonTruthy(schemaJson)
        hasSeo          == \/ metaTitle # <<>> \/ metaDescription # <<>>
                           \/ canonicalUrl # <<>> \/ hasSchema \/ noindex
        seo == Merge(Merge(Merge(Merge(
                   IF metaTitle # <<>> THEN [metaTitle |-> metaTitle] ELSE <<>>,
                   IF metaDescription # <<>>
                       THEN [metaDescription |-> metaDescription] ELSE <<>>),
                   IF canonicalUrl # <<>>
                       THEN [canonicalUrl |-> canonicalUrl] ELSE <<>>),
                   [noindex |-> noindex]),
                   IF hasSchema THEN [schemaJson |-> schemaJson] ELSE <<>>)
        shouldUnpublish == forceUnpublish \/ parseBoolean(row, "unpublish", FALSE)
        base == [routePath |-> routePath,
                 pageName  |-> pageName,
                 content   |-> Str(row, "content"),
                 isActive  |-> parseBoolean(row, "isActive", TRUE)]
    IN  Merge(Merge(base,
              IF hasSeo THEN [seo |-> seo] ELSE <<>>),
              publishMarker(forcePublish, shouldUnpublish))

(***************************************************************************)
(* Redirects importer: payload of a row.                                   *)
(***************************************************************************)
\* STATUS_MAP[normalized] || "Redirect-301"
toStatusCode(row) ==
    LET value == Str(row, "statusCode") IN
    IF value = <<>> THEN "Redirect-301"
    ELSE LET normalized == toLowerCase(trim(value)) IN
         CASE normalized = <<"3","0","1">> -> "Redirect-301"
           [] normalized = <<"3","0","2">> -> "Redirecct-302"
           [] normalized = <<"r","e","d","i","r","e","c","t","-","3","0","1">> -> "Redirect-301"
           [] normalized = <<"r","e","d","i","r","e","c","c","t","-","3","0","2">> -> "Redirecct-302"
           [] normalized = <<"r","e","d","i","r","e","c","t","-","3","0","2">> -> "Redirecct-302"
           [] OTHER -> "Redirect-301"

\* the payload built in run() of the redirects importer
redirectPayload(row, forcePublish) ==
    LET notes == trim(Str(row, "notes"))
        base  == [fromPath   |-> normalisePath(Str(row, "fromPath")),
                  toUrl      |-> trim(Str(row, "toUrl")),
                  statusCode |-> toStatusCode(row),
                  isActive   |-> parseBoolean(row, "isActive", TRUE),
                  notes      |-> IF notes = <<>> THEN null ELSE [text |-> notes]]
    IN  IF forcePublish THEN Merge(base, [publishedAt |-> NOW]) ELSE base

(***************************************************************************)
(* Articles importer: slugs, tags and the payload of a row.                *)
(***************************************************************************)
SlugChars == {LowerAZ[i] : i \in 1..Len(LowerAZ)} \cup Digits \cup WS \cup {"-"}

\* every maximal run of characters of `set` in s becomes the single `by`:
\* s.replace(/[set]+/g, by)
collapseRuns(s, set, by) ==
    LET ends == SelectSeq([p \in 1..Len(s) |-> p],
                          LAMBDA p : \/ s[p] \notin set
                                     \/ p = Len(s)
                                     \/ s[p + 1] \notin set)
    IN  [k \in 1..Len(ends) |-> IF s[ends[k]] \in set THEN by ELSE s[ends[k]]]

\* s.replace(/^-|-$/g, "")
stripEdgeHyphens(s) ==
    LET a == IF s # <<>> /\ Head(s) = "-" THEN Tail(s) ELSE s IN
    IF a # <<>> /\ a[Len(a)] = "-" THEN SubSeq(a, 1, Len(a) - 1) ELSE a

\* a variant of slugify without its last replacement: a hyphen at either
\* end stays
slugifyKeepsEdgeHyphens(value) ==
    collapseRuns(collapseRuns(SelectSeq(toLowerCase(trim(value)),
                                        LAMBDA c : c \in SlugChars),
                              WS, "-"),
                 {"-"}, "-")

slugify(value) ==
    LET lowered  == toLowerCase(trim(value))
        kept     == SelectSeq(lowered, LAMBDA c : c \in SlugChars)
        hyphened == collapseRuns(kept, WS, "-")
        single   == collapseRuns(hyphened, {"-"}, "-")
    IN  stripEdgeHyphens(single)

RECURSIVE split(_, _)
\* s.split(/[|,]/) for the separators in `seps`
split(s, seps) ==
    IF \A i \in 1..Len(s) : s[i] \notin seps THEN <<s>>
    ELSE LET i == CHOOSE j \in 1..Len(s) :
                      s[j] \in seps /\ \A k \in 1..(j - 1) : s[k] \notin seps
         IN  <<SubSeq(s, 1, i - 1)>> \o split(SubSeq(s, i + 1, Len(s)), seps)

\* parseTags(row.tags) for a delimited string
parseTags(row) ==
    LET raw == trim(Str(row, "tags")) IN
    IF raw = <<>> THEN <<>>
    ELSE LET parts   == split(raw, {"|", ","})
             trimmed == [i \in 1..Len(parts) |-> trim(parts[i])]
         IN  SelectSeq(trimmed, LAMBDA t : t # <<>>)

\* the names ensureTagIds() sends a request for: it skips a name whose
\* trimmed text or whose slug is empty
tagsToResolve(names) ==
    SelectSeq([i \in 1..Len(names) |-> trim(names[i])],
              LAMBDA n : n # <<>> /\ slugify(n) # <<>>)

\* a variant of tagPayload that stores the tag under its name as written
tagPayloadKeepsName(name, forcePublish) ==
    IF forcePublish THEN [name |-> name, slug |-> name, publishedAt |-> NOW]
    ELSE [name |-> name, slug |-> name]

\* the payload ensureTagIds() creates a tag with
tagPayload(name, forcePublish) ==
    LET base == [name |-> name, slug |-> slugify(name)] IN
    IF forcePublish THEN Merge(base, [publishedAt |-> NOW]) ELSE base

\* title and slug as run() of the articles importer derives them
articleTitle(row) == trim(Str(row, "title"))
articleSlug(row) ==
    LET explicit == trim(Str(row, "slug")) IN
    IF explicit # <<>> THEN explicit ELSE slugify(articleTitle(row))

\* String(row[config.summaryField] ?? row.excerpt ?? row.summary
\*        ?? row.description ?? "").trim(), the summary field being excerpt
\* for blog posts and summary for news articles
summaryValue(row, type) ==
    LET summaryField == IF type = "blog" THEN "excerpt" ELSE "summary" IN
    trim(IF summaryField \in DOMAIN row THEN row[summaryField]
         ELSE IF "excerpt" \in DOMAIN row THEN row.excerpt
         ELSE IF "summary" \in DOMAIN row THEN row.summary
         ELSE Str(row, "description"))

\* String(...).replace(/\s+/g, " ").trim()
squash(s) == trim(collapseRuns(s, WS, " "))

minLength == 120
maxLength == 155

\* the canned text of buildMetaDescription
Padding ==
    <<"R", "e", "a", "d", " ", "t", "h", "e", " ", "f", "u", "l", "l", " ", "a", "r",
      "t", "i", "c", "l", "e", " ", "o", "n", " ", "C", "o", "m", "m", "u", "t", "e",
      " ", "Z", "A", " ", "f", "o", "r", " ", "p", "r", "a", "c", "t", "i", "c", "a",
      "l", " ", "c", "o", "m", "m", "u", "t", "e", "r", " ", "i", "n", "s", "i", "g",
      "h", "t", "s", " ", "a", "n", "d", " ", "r", "o", "u", "t", "e", "-", "p", "l",
      "a", "n", "n", "i", "n", "g", " ", "g", "u", "i", "d", "a", "n", "c", "e", " ",
      "a", "c", "r", "o", "s", "s", " ", "S", "o", "u", "t", "h", " ", "A", "f", "r",
      "i", "c", "a", ".">>

ELLIPSIS == "<U+2026>"        \* the ellipsis character, one symbol of a text

buildMetaDescription(value, fallback) ==
    LET text         == squash(value)
        fallbackText == squash(fallback)
        combined ==
            IF Len(text) < minLength /\ fallbackText # <<>>
            THEN squash(IF text # <<>> THEN text \o <<" ">> \o fallbackText
                        ELSE fallbackText)
            ELSE text
        padded ==
            IF Len(combined) < minLength
            THEN squash(IF combined # <<>> THEN combined \o <<" ">> \o Padding
                        ELSE Padding)
            ELSE combined
    IN  IF Len(padded) > maxLength
        THEN trimEnd(SubSeq(padded, 1, maxLength - 1)) \o <<ELLIPSIS>>
        ELSE padded

\* mapRowToPayload(row, type, tagIds) of the articles importer: the key,
\* body, summary, description, tag and publish fields of the payload
articlePayload(row, type, ids, forcePublish) ==
    LET summary == summaryValue(row, type)
        content == IF "content" \in DOMAIN row THEN row.content
                   ELSE Str(row, "body")
        metaDescriptionRaw ==
            trim(IF "metaDescription" \in DOMAIN row
                 THEN row.metaDescription ELSE summary)
        metaDescription ==
            buildMetaDescription(metaDescriptionRaw,
                                 IF summary # <<>> THEN summary
                                 ELSE IF content # <<>> THEN content
                                 ELSE articleTitle(row))
    IN  Merge(Merge(Merge([title   |-> articleTitle(row),
                           slug    |-> articleSlug(row),
                           content |-> content,
                           seo     |-> <<[metaDescription |-> metaDescription]>>],
                    IF summary # <<>>
                    THEN [f \in {IF type = "blog" THEN "excerpt" ELSE "summary"}
                             |-> summary]
                    ELSE <<>>),
                    IF Len(ids) > 0 THEN [tags |-> ids] ELSE <<>>),
                    IF forcePublish THEN [publishedAt |-> NOW] ELSE <<>>)

ArticleRows ==
    { [title |-> <<"A"," ","b">>],
      [title |-> <<" ","a"," "," ","B"," ">>, tags |-> <<"t",","," ","U","|","t",",","!">>],
      [title |-> <<"B">>, slug |-> <<"a","-","b">>, tags |-> <<"t">>],
      [title |-> <<"!","?">>],
      [slug |-> <<"a","-","b">>],
      [title |-> <<"B">>, slug |-> <<"x">>, schemaJson |-> <<"{">>, tags |-> <<"t">>] }

(***************************************************************************)
(* Block Converter: convertContentToBlocks of sync:page-blocks and of the  *)
(* in-place migrations.                                                    *)
(***************************************************************************)
RECURSIVE leadingCount(_, _)
\* how many characters of `set` s begins with
leadingCount(s, set) ==
    IF s # <<>> /\ Head(s) \in set THEN 1 + leadingCount(Tail(s), set) ELSE 0

RECURSIVE splitOnBlankLines(_)
\* s.split(/\n{2,}/)
splitOnBlankLines(s) ==
    IF ~\E i \in 1..(Len(s) - 1) : s[i] = "\n" /\ s[i + 1] = "\n" THEN <<s>>
    ELSE LET i == CHOOSE j \in 1..(Len(s) - 1) :
                      /\ s[j] = "\n" /\ s[j + 1] = "\n"
                      /\ \A k \in 1..(j - 1) : ~(s[k] = "\n" /\ s[k + 1] = "\n")
             run == leadingCount(SubSeq(s, i, Len(s)), {"\n"})
         IN  <<SubSeq(s, 1, i - 1)>>
                 \o splitOnBlankLines(SubSeq(s, i + run, Len(s)))

\* xs.map((x) => x.trim()).filter(Boolean)
trimAll(xs) ==
    SelectSeq([i \in 1..Len(xs) |-> trim(xs[i])], LAMBDA x : x # <<>>)

splitTextBlocks(content) == trimAll(splitOnBlankLines(content))

\* a variant of headingMatches for the pattern /^(#{1,4})\s+(.+)$/: the text
\* after the markers may not run over a line break
headingMatchesSingleLine(block) ==
    LET depth == leadingCount(block, {"#"}) IN
    /\ depth \in 1..4
    /\ Len(block) >= depth + 2
    /\ block[depth + 1] \in WS
    /\ \A p \in 1..Len(trimStart(SubSeq(block, depth + 1, Len(block)))) :
          trimStart(SubSeq(block, depth + 1, Len(block)))[p] # "\n"

\* block.match(/^(#{1,4})\s+([\s\S]+)$/)
headingMatches(block) ==
    LET depth == leadingCount(block, {"#"}) IN
    /\ depth \in 1..4
    /\ Len(block) >= depth + 2
    /\ block[depth + 1] \in WS

\* heading[2] of that match: what follows the markers and the whitespace
headingText(block) ==
    LET depth == leadingCount(block, {"#"})
        rest  == SubSeq(block, depth + 1, Len(block))
        after == trimStart(rest)
    IN  IF after # <<>> THEN after ELSE <<rest[Len(rest)]>>

headingLevel(block) ==
    LET depth == leadingCount(block, {"#"}) IN
    IF depth = 1 THEN "h1" ELSE IF depth = 2 THEN "h2"
    ELSE IF depth = 3 THEN "h3" ELSE "h4"

\* /^[-*]\s+/.test(line)
bulletMatches(line) ==
    Len(line) >= 2 /\ line[1] \in {"-", "*"} /\ line[2] \in WS

\* /^\d+\.\s+/.test(line)
numberMatches(line) ==
    LET d == leadingCount(line, Digits) IN
    d >= 1 /\ Len(line) >= d + 2 /\ line[d + 1] = "." /\ line[d + 2] \in WS

\* line.replace(/^[-*]\s+/, "")
stripBullet(line) ==
    IF bulletMatches(line) THEN trimStart(Tail(line)) ELSE line

\* line.replace(/^\d+\.\s+/, "")
stripNumber(line) ==
    IF numberMatches(line)
    THEN trimStart(SubSeq(line, leadingCount(line, Digits) + 2, Len(line)))
    ELSE line

normalizeListLines(lines) ==
    LET kept == trimAll(lines) IN
    trimAll([i \in 1..Len(kept) |-> stripNumber(stripBullet(kept[i]))])

RECURSIVE join(_, _)
\* xs.join(sep)
join(xs, sep) ==
    IF xs = <<>> THEN <<>>
    ELSE IF Len(xs) = 1 THEN xs[1]
    ELSE xs[1] \o sep \o join(Tail(xs), sep)

\* a variant of convertBlock that omits a list of a single item
convertBlockOmitsShortLists(block, prefix) ==
    LET lines == trimAll(split(block, {"\n"}))
        isUnorderedList ==
            Len(lines) > 0 /\ \A i \in 1..Len(lines) : bulletMatches(lines[i])
        isOrderedList ==
            Len(lines) > 0 /\ \A i \in 1..Len(lines) : numberMatches(lines[i])
        items == normalizeListLines(lines)
    IN  IF headingMatches(block)
        THEN << [component |-> prefix \o ".section-heading",
                 text |-> trim(headingText(block)),
                 level |-> headingLevel(block)] >>
        ELSE IF isUnorderedList \/ isOrderedList
        THEN IF Len(items) > 1
             THEN << [component |-> prefix \o ".list",
                      listStyle |-> IF isOrderedList THEN "ordered"
                                    ELSE "unordered",
                      itemsText |->
                          join([i \in 1..Len(items) |-> <<"-", " ">> \o items[i]],
                               <<"\n">>)] >>
             ELSE <<>>
        ELSE << [component |-> prefix \o ".rich-text", body |-> block] >>

\* the blocks one text block contributes (none or one)
convertBlock(block, prefix) ==
    LET lines == trimAll(split(block, {"\n"}))
        isUnorderedList ==
            Len(lines) > 0 /\ \A i \in 1..Len(lines) : bulletMatches(lines[i])
        isOrderedList ==
            Len(lines) > 0 /\ \A i \in 1..Len(lines) : numberMatches(lines[i])
        items == normalizeListLines(lines)
    IN  IF headingMatches(block)
        THEN << [component |-> prefix \o ".section-heading",
                 text |-> trim(headingText(block)),
                 level |-> headingLevel(block)] >>
        ELSE IF isUnorderedList \/ isOrderedList
        THEN IF Len(items) > 0
             THEN << [component |-> prefix \o ".list",
                      listStyle |-> IF isOrderedList THEN "ordered"
                                    ELSE "unordered",
                      itemsText |->
                          join([i \in 1..Len(items) |-> <<"-", " ">> \o items[i]],
                               <<"\n">>)] >>
             ELSE <<>>
        ELSE << [component |-> prefix \o ".rich-text", body |-> block] >>

RECURSIVE convertBlocksNewestFirst(_, _)
\* a variant of convertBlocks that puts each block in front of the earlier
\* ones (dz.unshift for dz.push)
convertBlocksNewestFirst(blocks, prefix) ==
    IF blocks = <<>> THEN <<>>
    ELSE convertBlocksNewestFirst(Tail(blocks), prefix)
             \o convertBlock(Head(blocks), prefix)

RECURSIVE convertBlocks(_, _)
\* the loop over the text blocks: dz.push in the order of the blocks
convertBlocks(blocks, prefix) ==
    IF blocks = <<>> THEN <<>>
    ELSE convertBlock(Head(blocks), prefix) \o convertBlocks(Tail(blocks), prefix)

\* a variant of convertContentToBlocks that stamps every block with the
\* number of the run that made it
convertContentToBlocksStamped(content, prefix) ==
    [k \in 1..Len(convertBlocks(splitTextBlocks(content), prefix)) |->
        Merge(convertBlocks(splitTextBlocks(content), prefix)[k],
              [madeBy |-> runNo])]

convertContentToBlocks(content, prefix) ==
    convertBlocks(splitTextBlocks(content), prefix)

(***************************************************************************)
(* CSV input.  parseCsv of the pages and articles importers and of         *)
(* sync:page-blocks (the three copies are the same code), then             *)
(* parseCsvLine / parseCsv of the redirects importer.                      *)
(***************************************************************************)
\* the scanner's locals before the first character
csvStart ==
    [i |-> 1, row |-> <<>>, cell |-> <<>>, inQuotes |-> FALSE, line |-> 1,
     rowStartLine |-> 1, records |-> <<>>, recordStartLines |-> <<>>]

pushCell(st) == [st EXCEPT !.row = Append(@, st.cell), !.cell = <<>>]

pushRow(st) ==
    LET s == pushCell(st)
    IN  [s EXCEPT !.records = Append(@, s.row),
                  !.recordStartLines = Append(@, s.rowStartLine),
                  !.row = <<>>,
                  !.rowStartLine = s.line]

\* source[i], undefined past the end
charAt(source, i) == IF i >= 1 /\ i <= Len(source) THEN source[i] ELSE undefined

RECURSIVE csvScan(_, _)
\* the for loop over the characters of the source
csvScan(source, st) ==
    IF st.i > Len(source) THEN st
    ELSE LET char == source[st.i]
             next == charAt(source, st.i + 1)
         IN  csvScan(source,
                 IF char = "\""
                 THEN IF st.inQuotes /\ next = "\""
                      THEN [st EXCEPT !.cell = Append(@, "\""), !.i = @ + 2]
                      ELSE [st EXCEPT !.inQuotes = ~@, !.i = @ + 1]
                 ELSE IF ~st.inQuotes /\ char = ","
                 THEN [pushCell(st) EXCEPT !.i = @ + 1]
                 ELSE IF ~st.inQuotes /\ char \in {"\n", "\r"}
                 THEN [pushRow(st) EXCEPT
                           !.i = @ + (IF char = "\r" /\ next = "\n" THEN 2 ELSE 1),
                           !.line = st.line + 1,
                           !.rowStartLine = st.line + 1]
                 ELSE [st EXCEPT !.cell = Append(@, char), !.i = @ + 1])

\* the source without a leading byte order mark
stripBom(text) == IF charAt(text, 1) = BOM THEN Tail(text) ELSE text

\* the scanner's locals after the loop and the flush of the final row
csvRecords(text) ==
    LET st == csvScan(stripBom(text), csvStart)
    IN  IF Len(st.cell) > 0 \/ Len(st.row) > 0 THEN pushRow(st) ELSE st

\* parseCsv throws "Invalid CSV: unmatched quote in input file."
parseCsvThrows(text) == csvScan(stripBom(text), csvStart).inQuotes

\* the object headers.forEach fills with cells[index] ?? "": a later column
\* of the same name overwrites an earlier one
rowData(headers, cells) ==
    [h \in {headers[k] : k \in 1..Len(headers)} |->
        LET index == CHOOSE k \in 1..Len(headers) :
                         /\ headers[k] = h
                         /\ \A m \in (k + 1)..Len(headers) : headers[m] # h
        IN  IF index <= Len(cells) THEN cells[index] ELSE <<>>]

\* a variant of hasAnyValue that does not trim the cells
hasAnyValueUntrimmed(cells) == \E k \in 1..Len(cells) : cells[k] # <<>>

\* cells.some((value) => String(value ?? "").trim() !== "")
hasAnyValue(cells) == \E k \in 1..Len(cells) : trim(cells[k]) # <<>>

RECURSIVE mapRecords(_, _, _, _)
\* the loop over dataRows: the rows with their source line
mapRecords(headers, dataRows, dataLines, i) ==
    IF i > Len(dataRows) THEN <<>>
    ELSE IF ~hasAnyValue(dataRows[i])
    THEN mapRecords(headers, dataRows, dataLines, i + 1)
    ELSE <<[fields |-> rowData(headers, dataRows[i]), line |-> dataLines[i]]>>
         \o mapRecords(headers, dataRows, dataLines, i + 1)

\* the rows parseCsv returns for a text it does not throw on; `line` is the
\* row's __line
parseCsv(text) ==
    LET st == csvRecords(text)
    IN  IF Len(st.records) < 2 THEN <<>>
        ELSE mapRecords([k \in 1..Len(st.records[1]) |-> trim(st.records[1][k])],
                        Tail(st.records), Tail(st.recordStartLines), 1)

RECURSIVE lineCells(_, _, _, _)
\* redirects importer, parseCsvLine: the trimmed cells of one line
lineCells(line, i, current, inQuotes) ==
    IF i > Len(line) THEN <<trim(current)>>
    ELSE LET char == line[i]
             next == charAt(line, i + 1)
         IN  IF char = "\"" /\ inQuotes /\ next = "\""
             THEN lineCells(line, i + 2, Append(current, "\""), inQuotes)
             ELSE IF char = "\""
             THEN lineCells(line, i + 1, current, ~inQuotes)
             ELSE IF char = "," /\ ~inQuotes
             THEN <<trim(current)>> \o lineCells(line, i + 1, <<>>, inQuotes)
             ELSE lineCells(line, i + 1, Append(current, char), inQuotes)

parseCsvLine(line) == lineCells(line, 1, <<>>, FALSE)

RECURSIVE splitLines(_, _)
\* text.split(/\r?\n/)
splitLines(text, current) ==
    IF text = <<>> THEN <<current>>
    ELSE IF Head(text) = "\n" THEN <<current>> \o splitLines(Tail(text), <<>>)
    ELSE IF Head(text) = "\r" /\ charAt(text, 2) = "\n"
    THEN <<current>> \o splitLines(Tail(Tail(text)), <<>>)
    ELSE splitLines(Tail(text), Append(current, Head(text)))

\* text.split(/\r?\n/).map((line) => line.trim()).filter(Boolean)
csvLines(text) ==
    SelectSeq([k \in 1..Len(splitLines(text, <<>>)) |->
                   trim(splitLines(text, <<>>)[k])],
              LAMBDA line : line # <<>>)

\* redirects importer, parseCsv: one row per line after the header line;
\* `line` is the row's __line
parseCsvRedirects(text) ==
    LET lines == csvLines(text)
    IN  IF Len(lines) < 2 THEN <<>>
        ELSE LET headers == [k \in 1..Len(parseCsvLine(lines[1])) |->
                                 trim(parseCsvLine(lines[1])[k])]
             IN  [k \in 1..(Len(lines) - 1) |->
                     [fields |-> rowData(headers, parseCsvLine(lines[k + 1])),
                      line |-> k + 1]]

(***************************************************************************)
(* The programs, their collections and their inputs.                       *)
(***************************************************************************)
Importers  == {"import-pages", "import-articles", "import-redirects"}
Syncs      == {"sync-page-content", "sync-page-blocks"}
Migrations == {"migrate-page-blocks", "migrate-article-blocks"}

\* the field the natural key is matched on: filters[<field>][$eq]
KeyField(sc) ==
    CASE sc = "import-pages" -> "routePath"
      [] sc = "import-articles" -> "slug"
      [] sc = "import-redirects" -> "fromPath"
      [] sc \in Syncs -> "routePath"
      [] sc = "migrate-page-blocks" -> "routePath"
      [] sc = "migrate-article-blocks" -> "slug"

\* TYPE_CONFIG[type].endpoint
TypeEndpoint(type) ==
    IF type = "blog" THEN "/api/blog-posts" ELSE "/api/news-articles"

\* the collection endpoint
Endpoint(sc, type) ==
    CASE sc = "import-pages" -> "/api/pages"
      [] sc = "import-articles" -> TypeEndpoint(type)
      [] sc = "import-redirects" -> "/api/redirects"
      [] sc \in Syncs -> "/api/pages"
      [] sc = "migrate-page-blocks" -> "/api/pages"
      [] sc = "migrate-article-blocks" -> TypeEndpoint(type)

\* the components of the dynamic zone the script writes
BlockPrefix(sc) == IF sc = "migrate-article-blocks" THEN "article" ELSE "page"

TagEndpoint == "/api/content-tags"

\* the values assertConfig() accepts for the upsert mode
ModesOf(sc) ==
    IF sc \in Importers THEN {"update", "skip"}
    ELSE IF sc \in Syncs THEN {"skip", "create"}
    ELSE {"none"}

PageRows ==
    { [routePath |-> <<"/","a">>, pageName |-> <<"A">>],
      [routePath |-> <<"a","/">>, pageName |-> <<"A">>, isActive |-> <<"N","o">>],
      [routePath |-> <<"/">>, pageName |-> <<"H">>, unpublish |-> <<"y">>],
      [pageName |-> <<"H">>],
      [routePath |-> <<"/","b">>, pageName |-> <<" ">>],
      [routePath |-> <<"/","b">>, pageName |-> <<"A">>, schemaJson |-> <<"{">>],
      [routePath |-> <<"/","/">>, pageName |-> <<"A">>, noindex |-> <<"Y">>] }

\* the redirects importer reads CSV only: the header line and the data lines
\* of its input.  A column name is written as one symbol of the text.
RedirectHeader == <<"fromPath", ",", "toUrl", ",", "statusCode", ",", "notes">>

RedirectLines ==
    { <<"/","a", ",", "/","b">>,
      <<"a", ",", "/", ",", "3","0","2">>,
      <<"/","b", ",", "/","a", ",", ",", "H">>,
      <<",", "/","b">>,
      <<"/","b", ",">> }

SyncRows ==
    { [routePath |-> <<"/","a">>, pageName |-> <<"A">>, content |-> <<"#"," ","T">>],
      [routePath |-> <<"a","/">>, content |-> <<"-"," ","a","\n","\n","b">>],
      [routePath |-> <<"/","b">>, pageName |-> <<"A">>, content |-> <<" ">>],
      [pageName |-> <<"H">>, content |-> <<"#"," ","T">>],
      [routePath |-> <<"/","/">>, content |-> <<"-"," ","a","\n","\n","b">>] }

\* the objects a JSON input may hold
RowsOf(sc) ==
    CASE sc = "import-pages" -> PageRows
      [] sc = "import-articles" -> ArticleRows
      [] sc = "import-redirects" -> {}
      [] sc \in Syncs -> SyncRows
      [] sc \in Migrations -> {}

\* the header line of a CSV input.  A column name is written as one symbol
\* of the text.
CsvHeader(sc) ==
    CASE sc = "import-pages" -> <<"routePath", ",", "pageName">>
      [] sc = "import-articles" -> <<"title", ",", "slug">>
      [] sc = "import-redirects" -> RedirectHeader
      [] sc = "sync-page-blocks" -> <<"routePath", ",", "content">>

\* the data lines of a CSV input
CsvLines(sc) ==
    CASE sc = "import-pages" -> { <<"/","a", ",", "A">>,
                                  <<"\"","/","a", ",", "A">> }
      [] sc = "import-articles" -> { <<"B", ",", "a","-","b">>,
                                     <<"B", ",", "\"","a","-","b">> }
      [] sc = "import-redirects" ->
             RedirectLines \cup { <<"\"","/","a", ",", "/","b">> }
      [] sc = "sync-page-blocks" -> { <<"/","a", ",", "\"","#"," ","T","\"">>,
                                      <<"/","a", ",", "\"","#"," ","T">> }

RECURSIVE csvText(_, _)
\* the text of a CSV file: the lines, each ended by a line feed
csvText(header, lines) ==
    header \o <<"\n">>
           \o (IF lines = <<>> THEN <<>> ELSE csvText(Head(lines), Tail(lines)))

\* a CSV input with a schemaJson column: a data row with a quoted field of
\* two lines, then a data row whose schemaJson is no JSON
SchemaCsv(sc) ==
    (IF sc = "import-pages" THEN <<"routePath", ",", "pageName">>
                            ELSE <<"title", ",", "slug">>)
    \o <<",", "schemaJson", "\n",
          "/", "a", ",", "\"", "A", "\n", "b", "\"", "\n",
          "/", "b", ",", "B", ",", "{", "\n">>

\* what fs.readFile and JSON.parse make of the file: `readable` is whether
\* readFile returns, `valid` whether its text is JSON, `json` the array the
\* text of a JSON file denotes, `text` the text of any other file
JsonFile(rs)  == [readable |-> TRUE, valid |-> TRUE, json |-> rs, text |-> <<>>]
TextFile(text) == [readable |-> TRUE, valid |-> FALSE, json |-> <<>>, text |-> text]
NoFile        == [readable |-> FALSE, valid |-> FALSE, json |-> <<>>, text |-> <<>>]

\* the scripts whose parseInput takes .csv files, and the one that reads
\* nothing else
CsvReaders == {"import-pages", "import-articles", "import-redirects",
               "sync-page-blocks"}

\* the input arguments a run may be started with and the file each names
InputsOf(sc) ==
    IF sc \in Migrations THEN { [path |-> "none", file |-> NoFile] }
    ELSE (IF sc = "import-redirects" THEN {}
          ELSE { [path |-> "seed.json", file |-> JsonFile(rs)] :
                     rs \in SeqsOf(RowsOf(sc), 0, MaxRows) }
               \cup { [path |-> "seed.json", file |-> TextFile(<<"{">>)] })
         \cup (IF sc \in CsvReaders
               THEN { [path |-> "seed.csv",
                       file |-> TextFile(csvText(CsvHeader(sc), ls))] :
                          ls \in SeqsOf(CsvLines(sc),
                                        IF sc = "import-redirects" THEN 0 ELSE 1,
                                        IF sc = "import-redirects" THEN MaxRows ELSE 1) }
               ELSE {})
         \cup (IF sc \in {"import-pages", "import-articles"}
               THEN { [path |-> "seed.csv", file |-> TextFile(SchemaCsv(sc))] }
               ELSE {})
         \cup { [path |-> "seed.txt", file |-> TextFile(<<"a">>)],
                [path |-> "gone.csv", file |-> NoFile] }
         \cup (IF sc \in Importers THEN { [path |-> "", file |-> NoFile] } ELSE {})

\* an entry of a remote collection: the identifiers it exposes and its fields
Entry(documentId, id, data) ==
    [documentId |-> documentId, id |-> id, data |-> data]

\* the entries the collection may hold before the first run
EntriesOf(sc) ==
    CASE sc = "import-pages" ->
            { Entry("d1", "1", [routePath |-> <<"/","a">>]),
              Entry(undefined, "2", [routePath |-> <<"/","a">>]),
              Entry(undefined, undefined, [routePath |-> <<"/","a">>]),
              Entry("d4", "4", [routePath |-> <<"/">>]) }
      [] sc = "import-articles" ->
            { Entry("d1", "1", [slug |-> <<"a","-","b">>]),
              Entry(undefined, "2", [slug |-> <<"a","-","b">>]),
              Entry(undefined, undefined, [slug |-> <<"a","-","b">>]) }
      [] sc = "import-redirects" ->
            { Entry("d1", "1", [fromPath |-> <<"/","a">>]),
              Entry(undefined, "2", [fromPath |-> <<"/","a">>]),
              Entry(undefined, undefined, [fromPath |-> <<"/","a">>]) }
      [] sc \in Syncs ->
            { Entry("d1", "1", [routePath |-> <<"/","a">>]),
              Entry(undefined, "2", [routePath |-> <<"/","a">>]),
              Entry(undefined, undefined, [routePath |-> <<"/","a">>]),
              Entry("d4", "4", [routePath |-> <<"/">>]) }
      [] sc \in Migrations ->
            LET k == KeyField(sc) IN
            { Entry("d1", "1",
                    Merge([x \in {k} |-> <<"/","a">>],
                          [content |-> <<"#"," ","T">>, contentBlocks |-> <<>>])),
              Entry(undefined, "2",
                    Merge([x \in {k} |-> <<"/","b">>],
                          [content |-> <<"-"," ","a","\n","\n","b">>,
                           contentBlocks |-> <<[component |-> "page.cta"]>>])),
              Entry(undefined, undefined,
                    Merge([x \in {k} |-> <<"/","c">>],
                          [content |-> <<"#"," ","T">>, contentBlocks |-> <<>>])),
              Entry("d4", "4",
                    Merge([x \in {k} |-> <<"/">>],
                          [content |-> <<" ", "\n">>, contentBlocks |-> <<>>])) }

\* the first id the store hands out is beyond every id of EntriesOf
FirstFreeId(sc) == Cardinality(EntriesOf("import-pages")) + 1

\* the tags the content-tags collection may hold before the first run
TagEntries ==
    { Entry("t1", "1", [name |-> <<"t">>, slug |-> <<"t">>]),
      Entry(undefined, undefined, [name |-> <<"t">>, slug |-> <<"t">>]) }

(***************************************************************************)
(* The remote store: a REST collection that reflects the writes it gets.   *)
(***************************************************************************)
RECURSIVE findFirst(_, _, _)
\* GET <endpoint>?filters[<field>][$eq]=<value>&pagination[pageSize]=1,
\* then result?.data?.[0] || null
findFirst(coll, field, value) ==
    IF coll = <<>> THEN null
    ELSE IF field \in DOMAIN Head(coll).data /\ Head(coll).data[field] = value
         THEN Head(coll)
         ELSE findFirst(Tail(coll), field, value)

\* POST <endpoint> {data}: the collection with the new entry
storeCreate(coll, n, data) ==
    Append(coll, Entry("d" \o ToString(n), ToString(n), data))

\* PUT <endpoint>/<id> {data}: the fields given overwrite the entry's
storePut(coll, id, data) ==
    [i \in 1..Len(coll) |->
        IF getEntryId(coll[i]) = id
        THEN [coll[i] EXCEPT !.data = Merge(coll[i].data, data)]
        ELSE coll[i]]

(***************************************************************************)
(* Batch runner: the steps every run() shares.                             *)
(***************************************************************************)
NoRun == [none |-> TRUE]

\* how many settings of a run assertConfig() rejects
ConfigErrors(sc, token, type, path, mode, size) ==
    Cardinality({ wrong \in {"token", "type", "path", "mode", "pageSize"} :
        \/ wrong = "token" /\ token = ""
        \/ wrong = "type" /\ type \notin {"blog", "news", "none"}
        \/ wrong = "path" /\ path = ""
        \/ wrong = "mode" /\ mode \notin ModesOf(sc)
        \/ wrong = "pageSize" /\ (size < 1 \/ size > 100) })

Init ==
    /\ script \in Importers \cup Syncs \cup Migrations
    /\ STRAPI_TOKEN \in {"", "token"}
    /\ \E in \in InputsOf(script) : INPUT_PATH = in.path /\ file = in.file
    /\ DRY_RUN \in BOOLEAN
    /\ UPSERT_MODE \in (IF script \in Migrations THEN {"none"}
                        ELSE ModesOf(script) \cup {"merge"})
    /\ FORCE_PUBLISH \in BOOLEAN
    /\ FORCE_UNPUBLISH \in (IF script = "import-pages" THEN BOOLEAN ELSE {FALSE})
    /\ ARTICLE_TYPE \in (IF script \in {"import-articles", "migrate-article-blocks"}
                         THEN {"blog", "news", "", "press"} ELSE {"none"})
    /\ ONLY_WHEN_EMPTY_BLOCKS \in (IF script \in Migrations
                                   THEN BOOLEAN ELSE {TRUE})
    /\ CLEAR_LEGACY_CONTENT \in (IF script \in Migrations \cup {"sync-page-blocks"}
                                 THEN BOOLEAN ELSE {FALSE})
    /\ PAGE_SIZE \in (IF script \in Migrations THEN {0, 1, 100, 101} ELSE {100})
    /\ ConfigErrors(script, STRAPI_TOKEN, ARTICLE_TYPE, INPUT_PATH, UPSERT_MODE,
                    PAGE_SIZE) <= MaxConfigErrors
    /\ rows = <<>>
    /\ page = 1 /\ pageCount = 1
    /\ store \in SeqsOf(EntriesOf(script), 0,
                       IF script \in Migrations THEN MaxRows ELSE MaxStore)
    /\ tagStore \in (IF script = "import-articles"
                     THEN SeqsOf(TagEntries, 0, MaxStore) ELSE {<<>>})
    /\ nextId = FirstFreeId(script)
    /\ pc = "start"
    /\ idx = 0
    /\ created = 0 /\ updated = 0 /\ skipped = 0 /\ failed = 0
    /\ emptyContent = 0 /\ skippedNoContent = 0 /\ skippedHasBlocks = 0
    /\ skippedNoBlocksProduced = 0
    /\ seen = {}
    /\ key = <<>> /\ payload = <<>> /\ existing = null
    /\ tagNames = <<>> /\ tagIds = <<>>
    /\ requests = <<>>
    /\ log = <<>>
    /\ exitCode = -1
    /\ faults = 0
    /\ runNo = 1
    /\ prev = NoRun

\* one HTTP request may fail (non-2xx status or a thrown fetch error)
MayFail(ok) == ok \/ faults < MaxFaults

Get(endpoint, field, value) ==
    [method |-> "GET", endpoint |-> endpoint, field |-> field,
     value |-> value, row |-> idx]

Post(endpoint, body) ==
    [method |-> "POST", endpoint |-> endpoint, body |-> body, row |-> idx]

Put(endpoint, id, body) ==
    [method |-> "PUT", endpoint |-> endpoint, id |-> id, body |-> body,
     row |-> idx]

\* a variant of writesEnabled that forgets the DRY_RUN guard
writesAlways(dryRun) == TRUE

\* `if (!DRY_RUN) { await <write> }`: whether the run sends its writes
writesEnabled(dryRun) == ~dryRun

\* a variant of tally that bumps every counter on every row
tallyAll(n, outcome, kinds) == n + 1

\* `<counter> += 1` on the branch of `outcome`: counter n after a row that
\* ended with `outcome`, for the counter that counts the outcomes `kinds`
tally(n, outcome, kinds) == IF outcome \in kinds THEN n + 1 ELSE n

\* `for (const row of rows)`: where the run goes after row i of n
afterRow(i, n) == IF i < n THEN "row" ELSE "summary"

\* row.__line of the i-th row of the run, as parseInput sets it: index + 1
\* in a JSON array, the line the parser recorded in a CSV file
lineNumber(sc, path, f, i) ==
    IF sc \in Migrations THEN i
    ELSE IF sc = "import-redirects" THEN parseCsvRedirects(f.text)[i].line
    ELSE IF sc = "sync-page-content" \/ path = "seed.json" THEN i
    ELSE parseCsv(f.text)[i].line

\* the row ends with `outcome`: its counter, its log line, the next row
EndRow(outcome) ==
    /\ created' = tally(created, outcome, {"create"})
    /\ updated' = tally(updated, outcome, {"update"})
    /\ skipped' = tally(skipped, outcome, {"skip", "skip-empty"})
    /\ failed'  = tally(failed, outcome, {"fail"})
    /\ emptyContent' = tally(emptyContent, outcome, {"skip-empty"})
    /\ skippedNoContent' = tally(skippedNoContent, outcome, {"skip-no-content"})
    /\ skippedHasBlocks' = tally(skippedHasBlocks, outcome, {"skip-has-blocks"})
    /\ skippedNoBlocksProduced' =
           tally(skippedNoBlocksProduced, outcome, {"skip-no-blocks"})
    /\ log' = Append(log, [kind |-> outcome, line |-> idx,
                           lineNumber |-> lineNumber(script, INPUT_PATH, file, idx)])
    /\ idx' = idx + 1
    /\ pc' = afterRow(idx, Len(rows))
    /\ key' = <<>> /\ payload' = <<>> /\ existing' = null
    /\ tagNames' = <<>> /\ tagIds' = <<>>

\* a variant of RowError without the catch block: the error leaves the loop
\* and ends the run
RowErrorAborts ==
    /\ pc' = "done"
    /\ log' = Append(log, [kind |-> "fatal"])
    /\ idx' = idx
    /\ UNCHANGED countVars
    /\ key' = <<>> /\ payload' = <<>> /\ existing' = null
    /\ tagNames' = <<>> /\ tagIds' = <<>>

\* a variant of RowError whose catch block starts the row again
RowErrorRetries ==
    /\ pc' = "row"
    /\ log' = log
    /\ idx' = idx
    /\ UNCHANGED countVars
    /\ key' = <<>> /\ payload' = <<>> /\ existing' = null
    /\ tagNames' = <<>> /\ tagIds' = <<>>

\* `catch (error) { failed += 1; console.error(...) }`: an error thrown
\* inside the row's try block ends the row as failed
RowError == EndRow("fail")

\* the row goes on to its lookup with key k and payload p
ToLookup(k, p) ==
    /\ pc' = "lookup"
    /\ key' = k /\ payload' = p
    /\ tagNames' = <<>> /\ tagIds' = <<>>
    /\ UNCHANGED <<existing, idx, countVars, log>>

\* TYPE_CONFIG[ARTICLE_TYPE] exists
TypeConfigured(type) == type \in {"blog", "news"}

\* the checks of assertConfig() that a run started without its token skips
assertConfigIgnoresToken(sc, token, type, path, mode, size) ==
    IF sc = "import-articles" /\ ~TypeConfigured(type) THEN "type"
    ELSE IF sc \in Importers /\ path = "" THEN "path"
    ELSE IF sc = "migrate-article-blocks" /\ ~TypeConfigured(type) THEN "type"
    ELSE IF sc \notin Migrations /\ mode \notin ModesOf(sc) THEN "mode"
    ELSE IF sc \in Migrations /\ (size < 1 \/ size > 100) THEN "pageSize"
    ELSE "ok"

\* assertConfig(): the setting it throws on, in the order of its checks, or
\* "ok"
assertConfig(sc, token, type, path, mode, size) ==
    IF sc = "import-articles" /\ ~TypeConfigured(type) THEN "type"
    ELSE IF sc \in Importers /\ path = "" THEN "path"
    ELSE IF token = "" THEN "token"
    ELSE IF sc = "migrate-article-blocks" /\ ~TypeConfigured(type) THEN "type"
    ELSE IF sc \notin Migrations /\ mode \notin ModesOf(sc) THEN "mode"
    ELSE IF sc \in Migrations /\ (size < 1 \/ size > 100) THEN "pageSize"
    ELSE "ok"

\* path.extname(absolutePath).toLowerCase()
extname(path) ==
    CASE path = "seed.json" -> ".json"
      [] path \in {"seed.csv", "gone.csv"} -> ".csv"
      [] path = "seed.txt" -> ".txt"
      [] OTHER -> ""

\* reading the input throws: readFile, JSON.parse, parseCsv or the
\* "Unsupported file format" of parseInput
parseInputThrows(sc, path, f) ==
    IF ~f.readable THEN TRUE
    ELSE IF sc = "import-redirects" THEN FALSE
    ELSE IF sc = "sync-page-content" THEN ~f.valid
    ELSE IF extname(path) = ".json" THEN ~f.valid
    ELSE IF extname(path) = ".csv" THEN parseCsvThrows(f.text)
    ELSE TRUE

\* the object the runner reads a parsed CSV row as: its named columns
csvRow(r) ==
    [f \in {h[1] : h \in {x \in DOMAIN r.fields : Len(x) = 1}} |-> r.fields[<<f>>]]

\* the rows the run works on (their __line is their position in a JSON
\* array, the line the parser gives in a CSV file)
parseInput(sc, path, f) ==
    IF sc = "import-redirects"
    THEN [k \in 1..Len(parseCsvRedirects(f.text)) |->
             csvRow(parseCsvRedirects(f.text)[k])]
    ELSE IF sc = "sync-page-content" \/ extname(path) = ".json" THEN f.json
    ELSE [k \in 1..Len(parseCsv(f.text)) |-> csvRow(parseCsv(f.text)[k])]

\* run().catch: the error is reported and the process exits with status 1
Fatal ==
    /\ log' = Append(log, [kind |-> "fatal"])
    /\ pc' = "done"
    /\ exitCode' = 1

\* run() up to its first row: assertConfig(), then the importers and sync
\* scripts read their input, the migrations go on to fetch theirs
Start ==
    /\ pc = "start"
    /\ IF assertConfig(script, STRAPI_TOKEN, ARTICLE_TYPE, INPUT_PATH,
                       UPSERT_MODE, PAGE_SIZE) # "ok"
       THEN Fatal /\ UNCHANGED <<rows, idx>>
       ELSE IF script \in Migrations
       THEN /\ log' = Append(log, [kind |-> "migrating"])
            /\ pc' = "fetch"
            /\ UNCHANGED <<rows, idx, exitCode>>
       ELSE IF parseInputThrows(script, INPUT_PATH, file)
       THEN Fatal /\ UNCHANGED <<rows, idx>>
       ELSE LET parsed == parseInput(script, INPUT_PATH, file)
            IN  /\ rows' = parsed
                /\ IF parsed = <<>>
                   THEN /\ log' = Append(log, [kind |-> "no-rows"])
                        /\ pc' = "done"
                        /\ exitCode' = 0
                        /\ idx' = idx
                   ELSE /\ log' = Append(log, [kind |-> "importing",
                                               n |-> Len(parsed)])
                        /\ pc' = "row"
                        /\ exitCode' = exitCode
                        /\ idx' = 1
    /\ UNCHANGED <<cfgVars, page, pageCount, DRY_RUN, store, tagStore, nextId,
                   countVars, seen, rowVars, requests, faults, runNo, prev>>

(***************************************************************************)
(* Pages importer, run(): one row up to its lookup.                        *)
(***************************************************************************)
PagesRow ==
    /\ script = "import-pages" /\ pc = "row"
    /\ LET row == rows[idx]
           p   == mapRowToPayload(row, FORCE_PUBLISH, FORCE_UNPUBLISH)
       IN  IF safeJsonThrows(row)
           THEN RowError /\ seen' = seen
           ELSE IF p.routePath = <<>> \/ p.pageName = <<>>
           THEN EndRow("fail") /\ seen' = seen
           ELSE IF p.routePath \in seen
           THEN EndRow("fail") /\ seen' = seen
           ELSE ToLookup(p.routePath, p) /\ seen' = seen \cup {p.routePath}
    /\ UNCHANGED <<cfgVars, inputVars, DRY_RUN, store, tagStore, nextId, requests,
                   exitCode, faults, runNo, prev>>

(***************************************************************************)
(* Articles importer, run(): one row up to its lookup, tags first.         *)
(***************************************************************************)
\* mapRowToPayload(row, type, tagIds) once the tags are resolved to `ids`,
\* then on to findExistingBySlug
AfterTags(ids) ==
    LET row == rows[idx] IN
    IF safeJsonThrows(row)
    THEN RowError
    ELSE ToLookup(key, articlePayload(row, ARTICLE_TYPE, ids, FORCE_PUBLISH))

ArticlesRow ==
    /\ script = "import-articles" /\ pc = "row"
    /\ LET row   == rows[idx]
           title == articleTitle(row)
           slug  == articleSlug(row)
           names == tagsToResolve(parseTags(row))
       IN  IF title = <<>> \/ slug = <<>>
           THEN EndRow("fail") /\ seen' = seen
           ELSE IF slug \in seen
           THEN EndRow("fail") /\ seen' = seen
           ELSE /\ seen' = seen \cup {slug}
                /\ IF names = <<>>
                   THEN IF safeJsonThrows(row)
                        THEN RowError
                        ELSE ToLookup(slug, articlePayload(row, ARTICLE_TYPE, <<>>,
                                                     FORCE_PUBLISH))
                   ELSE /\ pc' = "tags"
                        /\ key' = slug
                        /\ tagNames' = names
                        /\ tagIds' = <<>>
                        /\ UNCHANGED <<payload, existing, idx, countVars, log>>
    /\ UNCHANGED <<cfgVars, inputVars, DRY_RUN, store, tagStore, nextId, requests,
                   exitCode, faults, runNo, prev>>

\* ensureTagIds(): the tag `found` (or created) is attached, then the next
\* name, or the payload after the last one
TagResolved(found) ==
    LET ids == IF found # null /\ ~Falsy(found.id)
               THEN Append(tagIds, found.id) ELSE tagIds
    IN  IF Len(tagNames) = 1
        THEN AfterTags(ids)
        ELSE /\ pc' = "tags"
             /\ tagNames' = Tail(tagNames)
             /\ tagIds' = ids
             /\ UNCHANGED <<key, payload, existing, idx, countVars, log>>

\* ensureTagIds(): findExistingTagBySlug(slug) of the next name
TagLookup ==
    /\ pc = "tags"
    /\ LET slug == slugify(Head(tagNames)) IN
       /\ requests' = Append(requests, Get(TagEndpoint, "slug", slug))
       /\ \E ok \in BOOLEAN :
            /\ MayFail(ok)
            /\ IF ~ok
               THEN RowError /\ faults' = faults + 1
               ELSE /\ faults' = faults
                    /\ LET found == findFirst(tagStore, "slug", slug) IN
                       IF found = null /\ writesEnabled(DRY_RUN)
                       THEN /\ pc' = "tagCreate"
                            /\ UNCHANGED <<rowVars, idx, countVars, log>>
                       ELSE TagResolved(found)
    /\ UNCHANGED <<cfgVars, inputVars, DRY_RUN, store, tagStore, nextId, seen, exitCode,
                   runNo, prev>>

\* ensureTagIds(): POST /api/content-tags for a name no tag was found for
TagCreate ==
    /\ pc = "tagCreate"
    /\ LET body == tagPayload(Head(tagNames), FORCE_PUBLISH) IN
       /\ requests' = Append(requests, Post(TagEndpoint, body))
       /\ \E ok \in BOOLEAN :
            /\ MayFail(ok)
            /\ IF ok
               THEN /\ tagStore' = storeCreate(tagStore, nextId, body)
                    /\ nextId' = nextId + 1
                    /\ faults' = faults
                    /\ TagResolved(Entry("d" \o ToString(nextId),
                                         ToString(nextId), body))
               ELSE /\ tagStore' = tagStore
                    /\ nextId' = nextId
                    /\ faults' = faults + 1
                    /\ RowError
    /\ UNCHANGED <<cfgVars, inputVars, DRY_RUN, store, seen, exitCode, runNo, prev>>

(***************************************************************************)
(* Redirects importer, run(): one row up to its lookup.                    *)
(***************************************************************************)
RedirectsRow ==
    /\ script = "import-redirects" /\ pc = "row"
    /\ LET row == rows[idx]
           p   == redirectPayload(row, FORCE_PUBLISH)
       IN  IF p.fromPath = <<>> \/ p.toUrl = <<>>
           THEN EndRow("fail")
           ELSE ToLookup(p.fromPath, p)
    /\ UNCHANGED <<cfgVars, inputVars, DRY_RUN, store, tagStore, nextId, requests, seen,
                   exitCode, faults, runNo, prev>>

(***************************************************************************)
(* Reconciliation of the seed importers: lookup, decision, write.          *)
(***************************************************************************)
\* a variant of importDecision that checks the id before the mode
importDecisionChecksIdFirst(found, mode) ==
    IF found # null
    THEN IF Falsy(getEntryId(found)) THEN "fail"
         ELSE IF mode = "skip" THEN "skip"
         ELSE "update"
    ELSE "create"

\* a variant of importDecision that writes a record it found as a new one
\* unless the mode is skip
importDecisionCreatesAgain(found, mode) ==
    IF found = null THEN "create"
    ELSE IF mode = "skip" THEN "skip"
    ELSE "create"

\* a variant of importDecision that leaves a missing record alone in skip mode
importDecisionSkipsMissing(found, mode) ==
    IF mode = "skip" THEN "skip"
    ELSE IF found = null THEN "create"
    ELSE IF Falsy(getEntryId(found)) THEN "fail"
    ELSE "update"

\* a variant of importDecision that does not check the id before an update
importDecisionUpdatesWithoutId(found, mode) ==
    IF found # null
    THEN IF mode = "skip" THEN "skip" ELSE "update"
    ELSE "create"

\* what the importer does with the result of its lookup:
\* "skip", "fail" (no id), "update" or "create"
importDecision(found, mode) ==
    IF found # null
    THEN IF mode = "skip" THEN "skip"
         ELSE IF Falsy(getEntryId(found)) THEN "fail"
         ELSE "update"
    ELSE "create"

\* findExistingBy...(key), then the branch of run() up to the next request
ImportLookup ==
    /\ script \in Importers /\ pc = "lookup"
    /\ requests' = Append(requests, Get(Endpoint(script, ARTICLE_TYPE),
                                         KeyField(script), key))
    /\ \E ok \in BOOLEAN :
        /\ MayFail(ok)
        /\ IF ~ok
           THEN RowError /\ faults' = faults + 1
           ELSE /\ faults' = faults
                /\ LET found == findFirst(store, KeyField(script), key)
                       act   == importDecision(found, UPSERT_MODE)
                   IN  IF act \in {"skip", "fail"} THEN EndRow(act)
                       ELSE IF ~writesEnabled(DRY_RUN) THEN EndRow(act)
                       ELSE /\ pc' = act
                            /\ existing' = found
                            /\ UNCHANGED <<key, payload, tagNames, tagIds, idx,
                                           countVars, log>>
    /\ UNCHANGED <<cfgVars, inputVars, DRY_RUN, store, tagStore, nextId, seen, exitCode,
                   runNo, prev>>

\* updatePage / updateEntry / updateRedirect: PUT <endpoint>/<id> {data}
Update ==
    /\ pc = "update"
    /\ LET id == getEntryId(existing) IN
       /\ requests' = Append(requests, Put(Endpoint(script, ARTICLE_TYPE), id,
                                            payload))
       /\ \E ok \in BOOLEAN :
            /\ MayFail(ok)
            /\ IF ok
               THEN /\ store' = storePut(store, id, payload)
                    /\ faults' = faults
                    /\ EndRow("update")
               ELSE /\ store' = store
                    /\ faults' = faults + 1
                    /\ RowError
    /\ UNCHANGED <<cfgVars, inputVars, DRY_RUN, tagStore, nextId, seen, exitCode, runNo,
                   prev>>

\* createPage / createEntry / createRedirect: POST <endpoint> {data}
Create ==
    /\ pc = "create"
    /\ requests' = Append(requests, Post(Endpoint(script, ARTICLE_TYPE),
                                          payload))
    /\ \E ok \in BOOLEAN :
        /\ MayFail(ok)
        /\ IF ok
           THEN /\ store' = storeCreate(store, nextId, payload)
                /\ nextId' = nextId + 1
                /\ faults' = faults
                /\ EndRow("create")
           ELSE /\ store' = store
                /\ nextId' = nextId
                /\ faults' = faults + 1
                /\ RowError
    /\ UNCHANGED <<cfgVars, inputVars, DRY_RUN, tagStore, seen, exitCode, runNo, prev>>

(***************************************************************************)
(* sync:page-content and sync:page-blocks, run().                          *)
(***************************************************************************)
\* a variant of syncUpdatePayload that sends the page's route along with
\* the update
syncUpdatePayloadCarriesRoute(sc, row, clearLegacy, forcePublish) ==
    Merge(Merge(Merge(IF sc = "sync-page-blocks"
                THEN [contentBlocks |->
                          convertContentToBlocks(Str(row, "content"), "page")]
                ELSE [content |-> Str(row, "content")],
                IF sc = "sync-page-blocks" /\ clearLegacy
                THEN [content |-> <<>>] ELSE <<>>),
                IF forcePublish THEN [publishedAt |-> NOW] ELSE <<>>),
                [routePath |-> normalizePath(Str(row, "routePath"))])

\* the body of the update a sync script sends for a row
syncUpdatePayload(sc, row, clearLegacy, forcePublish) ==
    Merge(Merge(IF sc = "sync-page-blocks"
                THEN [contentBlocks |->
                          convertContentToBlocks(Str(row, "content"), "page")]
                ELSE [content |-> Str(row, "content")],
                IF sc = "sync-page-blocks" /\ clearLegacy
                THEN [content |-> <<>>] ELSE <<>>),
                IF forcePublish THEN [publishedAt |-> NOW] ELSE <<>>)

\* the body of the create a sync script sends for a row (createPayload)
syncCreatePayload(sc, row, forcePublish) ==
    LET routePath == normalizePath(Str(row, "routePath"))
        name      == trim(Str(row, "pageName"))
    IN  Merge(Merge([routePath |-> routePath,
                     pageName  |-> IF name # <<>> THEN name ELSE routePath,
                     content   |-> Str(row, "content"),
                     isActive  |-> TRUE],
                    IF sc = "sync-page-blocks"
                    THEN [contentBlocks |->
                              convertContentToBlocks(Str(row, "content"), "page")]
                    ELSE <<>>),
                    IF forcePublish THEN [publishedAt |-> NOW] ELSE <<>>)

\* one row up to its lookup
SyncRow ==
    /\ script \in Syncs /\ pc = "row"
    /\ LET row       == rows[idx]
           routePath == normalizePath(Str(row, "routePath"))
       IN  IF routePath = <<>>
           THEN EndRow("fail")
           ELSE IF script = "sync-page-blocks" /\ trim(Str(row, "content")) = <<>>
           THEN EndRow("skip-empty")
           ELSE ToLookup(routePath, <<>>)
    /\ UNCHANGED <<cfgVars, inputVars, DRY_RUN, store, tagStore, nextId,
                   requests, seen, exitCode, faults, runNo, prev>>

\* what a sync script does with the result of its lookup:
\* "fail" (no id), "update", "create" or "skip"
syncDecision(found, mode) ==
    IF found # null
    THEN IF Falsy(getEntryId(found)) THEN "fail" ELSE "update"
    ELSE IF mode = "create" THEN "create" ELSE "skip"

\* findPageByRoute(routePath), then the branch of run() up to the next request
SyncLookup ==
    /\ script \in Syncs /\ pc = "lookup"
    /\ requests' = Append(requests, Get(Endpoint(script, ARTICLE_TYPE),
                                         KeyField(script), key))
    /\ \E ok \in BOOLEAN :
        /\ MayFail(ok)
        /\ IF ~ok
           THEN RowError /\ faults' = faults + 1
           ELSE /\ faults' = faults
                /\ LET found == findFirst(store, KeyField(script), key)
                       act   == syncDecision(found, UPSERT_MODE)
                   IN  IF act \in {"skip", "fail"} THEN EndRow(act)
                       ELSE IF ~writesEnabled(DRY_RUN) THEN EndRow(act)
                       ELSE /\ pc' = act
                            /\ existing' = found
                            /\ payload' =
                                 IF act = "update"
                                 THEN syncUpdatePayload(script, rows[idx],
                                          CLEAR_LEGACY_CONTENT, FORCE_PUBLISH)
                                 ELSE syncCreatePayload(script, rows[idx],
                                          FORCE_PUBLISH)
                            /\ UNCHANGED <<key, tagNames, tagIds, idx,
                                           countVars, log>>
    /\ UNCHANGED <<cfgVars, inputVars, DRY_RUN, store, tagStore, nextId, seen,
                   exitCode, runNo, prev>>

(***************************************************************************)
(* In-place migrations (pages, articles): fetch loop and run().            *)
(***************************************************************************)
\* the store's answer to page n of a list request: data and pageCount
pageData(coll, n, size) ==
    SubSeq(coll, (n - 1) * size + 1,
           IF n * size < Len(coll) THEN n * size ELSE Len(coll))

pageCountOf(coll, size) == (Len(coll) + size - 1) \div size

\* a variant of morePages that stops one page short
morePagesStopsShort(n, count) == n < count

\* `while (page <= pageCount)`: page n is still to be fetched
morePages(n, count) == n <= count

\* one request of fetchAllPages / fetchAllEntries; a failed request ends the
\* process through run().catch
Fetch ==
    /\ script \in Migrations /\ pc = "fetch"
    /\ requests' = Append(requests,
                          [method |-> "GET", endpoint |-> Endpoint(script, ARTICLE_TYPE),
                           page |-> page, pageSize |-> PAGE_SIZE, row |-> 0])
    /\ \E ok \in BOOLEAN :
        /\ MayFail(ok)
        /\ IF ~ok
           THEN /\ faults' = faults + 1
                /\ Fatal
                /\ UNCHANGED <<inputVars, idx>>
           ELSE LET all   == rows \o pageData(store, page, PAGE_SIZE)
                    count == pageCountOf(store, PAGE_SIZE)
                IN  /\ faults' = faults
                    /\ rows' = all
                    /\ pageCount' = count
                    /\ page' = page + 1
                    /\ IF morePages(page + 1, count)
                       THEN /\ pc' = "fetch"
                            /\ UNCHANGED <<log, exitCode, idx>>
                       ELSE IF all = <<>>
                       THEN /\ log' = Append(log, [kind |-> "no-rows"])
                            /\ pc' = "done" /\ exitCode' = 0
                            /\ idx' = idx
                       ELSE /\ pc' = "row" /\ idx' = 1
                            /\ UNCHANGED <<log, exitCode>>
    /\ UNCHANGED <<cfgVars, DRY_RUN, store, tagStore, nextId, countVars, seen,
                   rowVars, runNo, prev>>

\* a variant of migratePayload that clears the legacy content in every
\* update
migratePayloadAlwaysClears(sc, entry, clearLegacy, forcePublish) ==
    Merge(Merge([contentBlocks |->
                     convertContentToBlocks(entry.data.content, BlockPrefix(sc))],
                [content |-> <<>>]),
                IF forcePublish THEN [publishedAt |-> NOW] ELSE <<>>)

\* the body of the update a migration sends for an entry
migratePayload(sc, entry, clearLegacy, forcePublish) ==
    Merge(Merge([contentBlocks |->
                     convertContentToBlocks(entry.data.content, BlockPrefix(sc))],
                IF clearLegacy THEN [content |-> <<>>] ELSE <<>>),
                IF forcePublish THEN [publishedAt |-> NOW] ELSE <<>>)

\* a variant of migrateDecision that counts a record without content as failed
migrateDecisionFailsOnBlank(sc, entry, onlyWhenEmpty) ==
    IF Falsy(getEntryId(entry)) THEN "fail"
    ELSE IF trim(entry.data.content) = <<>> THEN "fail"
    ELSE IF onlyWhenEmpty /\ Len(entry.data.contentBlocks) > 0
    THEN "skip-has-blocks"
    ELSE IF convertContentToBlocks(entry.data.content, BlockPrefix(sc)) = <<>>
    THEN "skip-no-blocks"
    ELSE "update"

\* a variant of migrateDecision that overwrites blocks that already exist
migrateDecisionOverwrites(sc, entry, onlyWhenEmpty) ==
    IF Falsy(getEntryId(entry)) THEN "fail"
    ELSE IF trim(entry.data.content) = <<>> THEN "skip-no-content"
    ELSE IF convertContentToBlocks(entry.data.content, BlockPrefix(sc)) = <<>>
    THEN "skip-no-blocks"
    ELSE "update"

\* what the migration does with one fetched entry
migrateDecision(sc, entry, onlyWhenEmpty) ==
    IF Falsy(getEntryId(entry)) THEN "fail"
    ELSE IF trim(entry.data.content) = <<>> THEN "skip-no-content"
    ELSE IF onlyWhenEmpty /\ Len(entry.data.contentBlocks) > 0
    THEN "skip-has-blocks"
    ELSE IF convertContentToBlocks(entry.data.content, BlockPrefix(sc)) = <<>>
    THEN "skip-no-blocks"
    ELSE "update"

\* one entry up to its write
MigrateRow ==
    /\ script \in Migrations /\ pc = "row"
    /\ LET entry == rows[idx]
           act   == migrateDecision(script, entry, ONLY_WHEN_EMPTY_BLOCKS)
       IN  IF act # "update" \/ ~writesEnabled(DRY_RUN) THEN EndRow(act)
           ELSE /\ pc' = "update"
                /\ existing' = entry
                /\ payload' = migratePayload(script, entry, CLEAR_LEGACY_CONTENT,
                                             FORCE_PUBLISH)
                /\ UNCHANGED <<key, tagNames, tagIds, idx, countVars, log>>
    /\ UNCHANGED <<cfgVars, inputVars, DRY_RUN, store, tagStore, nextId,
                   requests, seen, exitCode, faults, runNo, prev>>

\* a variant of exitStatus that reports failed rows in the exit status
exitStatusCountsFailures(failedRows) == IF failedRows > 0 THEN 1 ELSE 0

\* run() returns after its report whatever the rows did: the process ends
\* with status 0
exitStatus(failedRows) == 0

\* the "Done." report after the last row; run() returns, the process exits 0
Summary ==
    /\ pc = "summary"
    /\ log' = Append(log, [kind |-> "summary", created |-> created,
                           updated |-> updated, skipped |-> skipped,
                           failed |-> failed, scanned |-> Len(rows)])
    /\ pc' = "done"
    /\ exitCode' = exitStatus(failed)
    /\ UNCHANGED <<cfgVars, inputVars, DRY_RUN, store, tagStore, nextId, idx, countVars,
                   seen, rowVars, requests, faults, runNo, prev>>

\* after a dry run the operator starts the script again on the same input,
\* this time live
Rerun ==
    /\ pc = "done" /\ DRY_RUN
    /\ prev' = [DRY_RUN |-> DRY_RUN, created |-> created, updated |-> updated,
                skipped |-> skipped, failed |-> failed, faults |-> faults,
                writes |-> Len(SelectSeq(requests, LAMBDA r : r.method # "GET"))]
    /\ runNo' = runNo + 1
    /\ DRY_RUN' = FALSE
    /\ pc' = "start" /\ idx' = 0 /\ exitCode' = -1
    /\ created' = 0 /\ updated' = 0 /\ skipped' = 0 /\ failed' = 0
    /\ emptyContent' = 0 /\ skippedNoContent' = 0 /\ skippedHasBlocks' = 0
    /\ skippedNoBlocksProduced' = 0
    /\ seen' = {} /\ requests' = <<>> /\ log' = <<>>
    /\ rows' = <<>>
    /\ page' = 1 /\ pageCount' = 1
    /\ UNCHANGED <<cfgVars, store, tagStore, nextId, rowVars, faults>>

Next ==
    \/ Start
    \/ PagesRow
    \/ ArticlesRow
    \/ TagLookup
    \/ TagCreate
    \/ RedirectsRow
    \/ ImportLookup
    \/ SyncRow
    \/ SyncLookup
    \/ Fetch
    \/ MigrateRow
    \/ Update
    \/ Create
    \/ Summary
    \/ Rerun

Spec == Init /\ [][Next]_vars

(***************************************************************************)
(* The CSV parsers alone: a text is handed to the parser of a script and   *)
(* `rows` receives what it returns, each row with its columns and its      *)
(* __line.                                                                 *)
(***************************************************************************)
\* the texts: any characters, with or without a byte order mark in front
CsvTexts ==
    LET bodies == SeqsOf({"a", ",", "\"", "\n", "\r", " "}, 0, MaxText)
    IN  bodies \cup { <<BOM>> \o t : t \in bodies }

CsvInit ==
    /\ script \in CsvReaders
    /\ STRAPI_TOKEN = "token"
    /\ INPUT_PATH = "seed.csv"
    /\ file \in { TextFile(t) : t \in CsvTexts }
    /\ DRY_RUN = FALSE
    /\ UPSERT_MODE = "skip"
    /\ FORCE_PUBLISH = FALSE /\ FORCE_UNPUBLISH = FALSE
    /\ ARTICLE_TYPE = (IF script = "import-articles" THEN "blog" ELSE "none")
    /\ ONLY_WHEN_EMPTY_BLOCKS = TRUE /\ CLEAR_LEGACY_CONTENT = FALSE
    /\ PAGE_SIZE = 100
    /\ rows = <<>>
    /\ page = 1 /\ pageCount = 1
    /\ store = <<>> /\ tagStore = <<>>
    /\ nextId = FirstFreeId(script)
    /\ pc = "start"
    /\ idx = 0
    /\ created = 0 /\ updated = 0 /\ skipped = 0 /\ failed = 0
    /\ emptyContent = 0 /\ skippedNoContent = 0 /\ skippedHasBlocks = 0
    /\ skippedNoBlocksProduced = 0
    /\ seen = {}
    /\ key = <<>> /\ payload = <<>> /\ existing = null
    /\ tagNames = <<>> /\ tagIds = <<>>
    /\ requests = <<>>
    /\ log = <<>>
    /\ exitCode = -1
    /\ faults = 0
    /\ runNo = 1
    /\ prev = NoRun

\* parseCsv(raw) of the pages and articles importers and of sync:page-blocks
ParseCsv ==
    /\ pc = "start" /\ script # "import-redirects"
    /\ IF parseCsvThrows(file.text)
       THEN Fatal /\ rows' = rows
       ELSE /\ rows' = parseCsv(file.text)
            /\ pc' = "done"
            /\ exitCode' = 0
            /\ log' = log
    /\ UNCHANGED <<cfgVars, page, pageCount, DRY_RUN, store, tagStore, nextId,
                   idx, countVars, seen, rowVars, requests, faults, runNo, prev>>

\* parseCsv(fileContent) of the redirects importer
ParseCsvRedirects ==
    /\ pc = "start" /\ script = "import-redirects"
    /\ rows' = parseCsvRedirects(file.text)
    /\ pc' = "done"
    /\ exitCode' = 0
    /\ UNCHANGED <<cfgVars, page, pageCount, DRY_RUN, store, tagStore, nextId,
                   idx, countVars, seen, rowVars, requests, log, faults, runNo,
                   prev>>

CsvNext ==
    \/ ParseCsv
    \/ ParseCsvRedirects

CsvSpec == CsvInit /\ [][CsvNext]_vars

(***************************************************************************)
(* The block converter alone: one content is converted by a script, more   *)
(* than once, in one run or in two, the second run in another              *)
(* configuration and on another store.  The log keeps what each conversion *)
(* returned.                                                               *)
(***************************************************************************)
\* lines as a list is written: a marker (or none), a gap (or none), a text
\* that may itself begin with a marker
ListLines ==
    { marker \o gap \o text :
          marker \in {<<"-">>, <<"*">>, <<"1", ".">>, <<"1", "0", ".">>, <<"#">>, <<>>},
          gap \in {<<" ">>, <<" ", " ">>, <<>>},
          text \in {<<"a">>, <<"1", ".", " ", "a">>, <<"-", " ", "a">>} }

\* a content of three paragraphs: a heading, a body text and a list
ScenarioContent ==
    <<"#", " ", "T", "i", "t", "l", "e", "\n", "\n",
      "S", "o", "m", "e", " ", "b", "o", "d", "y", " ", "t", "e", "x", "t", ".",
      "\n", "\n", "-", " ", "a", "\n", "-", " ", "b">>

\* the contents: any characters, the contents made of list lines, and the
\* content of three paragraphs
Contents ==
    SeqsOf({"#", " ", "a", "\n", "-"}, 0, MaxContent)
        \cup { join(ls, <<"\n">>) : ls \in SeqsOf(ListLines, 1, MaxLines) }
        \cup { ScenarioContent }

BlockInit ==
    /\ script \in {"sync-page-blocks", "migrate-page-blocks",
                  "migrate-article-blocks"}
    /\ STRAPI_TOKEN = "token"
    /\ INPUT_PATH = (IF script \in Migrations THEN "none" ELSE "seed.json")
    /\ file = NoFile
    /\ DRY_RUN = TRUE
    /\ UPSERT_MODE = (IF script \in Migrations THEN "none" ELSE "skip")
    /\ FORCE_PUBLISH = FALSE /\ FORCE_UNPUBLISH = FALSE
    /\ ARTICLE_TYPE = (IF script = "migrate-article-blocks" THEN "blog" ELSE "none")
    /\ ONLY_WHEN_EMPTY_BLOCKS = TRUE /\ CLEAR_LEGACY_CONTENT = FALSE
    /\ PAGE_SIZE = 100
    /\ \E content \in Contents : rows = <<[content |-> content]>>
    /\ page = 1 /\ pageCount = 1
    /\ store = <<>> /\ tagStore = <<>>
    /\ nextId = FirstFreeId(script)
    /\ pc = "row"
    /\ idx = 1
    /\ created = 0 /\ updated = 0 /\ skipped = 0 /\ failed = 0
    /\ emptyContent = 0 /\ skippedNoContent = 0 /\ skippedHasBlocks = 0
    /\ skippedNoBlocksProduced = 0
    /\ seen = {}
    /\ key = <<>> /\ payload = <<>> /\ existing = null
    /\ tagNames = <<>> /\ tagIds = <<>>
    /\ requests = <<>>
    /\ log = <<>>
    /\ exitCode = -1
    /\ faults = 0
    /\ runNo = 1
    /\ prev = NoRun

\* convertContentToBlocks(content) is called on the content of the row
Convert ==
    /\ Len(log) < MaxConversions
    /\ LET blocks == convertContentToBlocks(rows[idx].content, BlockPrefix(script))
       IN  /\ payload' = [contentBlocks |-> blocks]
           /\ log' = Append(log, [kind |-> "blocks", blocks |-> blocks,
                                   runNo |-> runNo])
    /\ UNCHANGED <<cfgVars, inputVars, DRY_RUN, store, tagStore, nextId, pc, idx,
                   countVars, seen, key, existing, tagNames, tagIds, requests,
                   exitCode, faults, runNo, prev>>

\* the script is started again on the same content: a live run that forces
\* publication, on a store that has gained an entry
NextRun ==
    /\ runNo = 1
    /\ runNo' = 2
    /\ DRY_RUN' = FALSE
    /\ FORCE_PUBLISH' = TRUE
    /\ store' = storeCreate(store, nextId, [content |-> rows[idx].content])
    /\ nextId' = nextId + 1
    /\ UNCHANGED <<script, STRAPI_TOKEN, INPUT_PATH, file, UPSERT_MODE,
                   FORCE_UNPUBLISH, ARTICLE_TYPE, ONLY_WHEN_EMPTY_BLOCKS,
                   CLEAR_LEGACY_CONTENT, PAGE_SIZE, inputVars, tagStore, pc, idx,
                   countVars, seen, rowVars, requests, log, exitCode, faults,
                   prev>>

BlockNext ==
    \/ Convert
    \/ NextRun

BlockSpec == BlockInit /\ [][BlockNext]_vars

(***************************************************************************)
(* The articles importer alone on one row: a row with any title and no     *)
(* slug, or a row whose description and summary are texts of the lengths   *)
(* buildMetaDescription tells apart.                                       *)
(***************************************************************************)
\* the rows: every title over a few characters; every pair of a description
\* and a summary (or a blank content) of the lengths around the limits,
\* each a text of n characters with a blank at every k-th
ArticleInputs ==
    LET texts == { [i \in 1..n |-> IF i % k = 0 THEN " " ELSE "a"] :
                       n \in {0, 1, 2, 3, 4, minLength - 1, minLength, minLength + 1,
                              maxLength - 1, maxLength, maxLength + 1},
                       k \in {5, 7, 200} }
    IN  { [title |-> t] : t \in SeqsOf({"a", "B", "1", " ", "-", "!"}, 0, MaxTitle) }
        \cup { [title |-> <<"A">>, metaDescription |-> v, excerpt |-> f] :
                   v \in texts, f \in texts }
        \cup { [title |-> <<"A">>, metaDescription |-> v, summary |-> f] :
                   v \in texts, f \in texts }
        \cup { [title |-> <<"A">>, metaDescription |-> v, content |-> <<" ">>] :
                   v \in texts }

ArticleInit ==
    /\ script = "import-articles"
    /\ STRAPI_TOKEN = "token"
    /\ INPUT_PATH = "seed.json"
    /\ \E row \in ArticleInputs :
          file = JsonFile(<<row>>) /\ rows = <<row>>
    /\ DRY_RUN \in BOOLEAN
    /\ UPSERT_MODE = "update"
    /\ FORCE_PUBLISH = FALSE /\ FORCE_UNPUBLISH = FALSE
    /\ ARTICLE_TYPE \in {"blog", "news"}
    /\ ONLY_WHEN_EMPTY_BLOCKS = TRUE /\ CLEAR_LEGACY_CONTENT = FALSE
    /\ PAGE_SIZE = 100
    /\ page = 1 /\ pageCount = 1
    /\ store = <<>> /\ tagStore = <<>>
    /\ nextId = FirstFreeId(script)
    /\ pc = "row"
    /\ idx = 1
    /\ created = 0 /\ updated = 0 /\ skipped = 0 /\ failed = 0
    /\ emptyContent = 0 /\ skippedNoContent = 0 /\ skippedHasBlocks = 0
    /\ skippedNoBlocksProduced = 0
    /\ seen = {}
    /\ key = <<>> /\ payload = <<>> /\ existing = null
    /\ tagNames = <<>> /\ tagIds = <<>>
    /\ requests = <<>>
    /\ log = <<[kind |-> "importing", n |-> 1]>>
    /\ exitCode = -1
    /\ faults = 0
    /\ runNo = 1
    /\ prev = NoRun

ArticleNext ==
    \/ ArticlesRow
    \/ ImportLookup
    \/ Create
    \/ Summary

ArticleSpec == ArticleInit /\ [][ArticleNext]_vars

(***************************************************************************)
(* The pages and the redirects importer alone on two rows: the path of the *)
(* first row is any text of slashes, letters and blanks, the second row    *)
(* names the path a/.  The collection is empty or holds /a.                *)
(***************************************************************************)
PathInit ==
    /\ script \in {"import-pages", "import-redirects"}
    /\ STRAPI_TOKEN = "token"
    /\ \E path \in SeqsOf({"/", "a", " "}, 0, MaxPath) :
          IF script = "import-pages"
          THEN /\ INPUT_PATH = "seed.json"
               /\ file = JsonFile(<<[routePath |-> path, pageName |-> <<"A">>],
                                    [routePath |-> <<"a", "/">>, pageName |-> <<"A">>]>>)
          ELSE /\ INPUT_PATH = "seed.csv"
               /\ file = TextFile(csvText(RedirectHeader,
                                          <<path \o <<",", "/", "b">>,
                                            <<"a", "/", ",", "/", "b">>>>))
    /\ rows = parseInput(script, INPUT_PATH, file)
    /\ DRY_RUN = FALSE
    /\ UPSERT_MODE \in {"skip", "update"}
    /\ FORCE_PUBLISH = FALSE /\ FORCE_UNPUBLISH = FALSE
    /\ ARTICLE_TYPE = "none"
    /\ ONLY_WHEN_EMPTY_BLOCKS = TRUE /\ CLEAR_LEGACY_CONTENT = FALSE
    /\ PAGE_SIZE = 100
    /\ page = 1 /\ pageCount = 1
    /\ store \in {<<>>, <<Entry("d1", "1", [routePath |-> <<"/", "a">>,
                                            fromPath |-> <<"/", "a">>])>>}
    /\ tagStore = <<>>
    /\ nextId = FirstFreeId(script)
    /\ pc = "row"
    /\ idx = 1
    /\ created = 0 /\ updated = 0 /\ skipped = 0 /\ failed = 0
    /\ emptyContent = 0 /\ skippedNoContent = 0 /\ skippedHasBlocks = 0
    /\ skippedNoBlocksProduced = 0
    /\ seen = {}
    /\ key = <<>> /\ payload = <<>> /\ existing = null
    /\ tagNames = <<>> /\ tagIds = <<>>
    /\ requests = <<>>
    /\ log = <<[kind |-> "importing", n |-> Len(rows)]>>
    /\ exitCode = -1
    /\ faults = 0
    /\ runNo = 1
    /\ prev = NoRun

\* after a live run the operator starts the script again, live, on the same
\* input and against the collection as the first run left it
RunAgain ==
    /\ pc = "done" /\ ~DRY_RUN /\ runNo = 1
    /\ prev' = [DRY_RUN |-> DRY_RUN, created |-> created, updated |-> updated,
                skipped |-> skipped, failed |-> failed, faults |-> faults,
                writes |-> Len(SelectSeq(requests, LAMBDA r : r.method # "GET"))]
    /\ runNo' = runNo + 1
    /\ pc' = "row" /\ idx' = 1 /\ exitCode' = -1
    /\ created' = 0 /\ updated' = 0 /\ skipped' = 0 /\ failed' = 0
    /\ emptyContent' = 0 /\ skippedNoContent' = 0 /\ skippedHasBlocks' = 0
    /\ skippedNoBlocksProduced' = 0
    /\ seen' = {} /\ requests' = <<>>
    /\ log' = <<[kind |-> "importing", n |-> Len(rows)]>>
    /\ UNCHANGED <<cfgVars, inputVars, DRY_RUN, store, tagStore, nextId, rowVars,
                   faults>>

PathNext ==
    \/ PagesRow
    \/ RedirectsRow
    \/ ImportLookup
    \/ Create
    \/ Update
    \/ Summary
    \/ RunAgain

PathSpec == PathInit /\ [][PathNext]_vars

(***************************************************************************)
(* The lifecycle hooks of the news-article content type: beforeCreate and  *)
(* beforeUpdate fill in a missing summary from the content.                *)
(***************************************************************************)
MAX_SUMMARY_LENGTH == 170

\* stripHtml(value): block tags become line breaks, other tags go, blanks
\* before a line break go, three and more line breaks become two, trim.
\* A match of either tag pattern begins at a "<" and ends at the first ">"
\* after it; of the "<" before one ">" the leftmost that matches begins it.
stripHtml(value) ==
    LET blockNames ==
            {<<"p">>, <<"d","i","v">>, <<"b","r">>, <<"l","i">>, <<"u","l">>,
             <<"o","l">>, <<"b","l","o","c","k","q","u","o","t","e">>}
            \cup {<<"h", d>> : d \in {"1", "2", "3", "4", "5", "6"}}
        close(s, i) ==
            IF \E q \in (i + 1)..Len(s) : s[q] = ">"
            THEN CHOOSE q \in (i + 1)..Len(s) :
                     s[q] = ">" /\ \A r \in (i + 1)..(q - 1) : s[r] # ">"
            ELSE 0
        startsWith(s, i, name) ==
            /\ i + Len(name) - 1 <= Len(s)
            /\ toLowerCase(SubSeq(s, i, i + Len(name) - 1)) = name
        \* /<\/?(p|div|br|h[1-6]|li|ul|ol|blockquote)[^>]*>/gi matches at i
        blockTag(s, i) ==
            /\ s[i] = "<" /\ close(s, i) # 0
            /\ \E name \in blockNames :
                  \/ startsWith(s, i + 1, name)
                  \/ i + 1 <= Len(s) /\ s[i + 1] = "/" /\ startsWith(s, i + 2, name)
        \* /<[^>]+>/g matches at i
        anyTag(s, i) == s[i] = "<" /\ close(s, i) > i + 1
        replaceTags(s, matches(_, _), by) ==
            LET starts == {i \in 1..Len(s) :
                             /\ matches(s, i)
                             /\ \A j \in 1..(i - 1) :
                                   ~(matches(s, j) /\ close(s, j) = close(s, i))}
                inside(q) == \E i \in starts : i <= q /\ q <= close(s, i)
                keep == SelectSeq([q \in 1..Len(s) |-> q],
                                  LAMBDA q : ~inside(q) \/ (by # "" /\ q \in starts))
            IN  [k \in 1..Len(keep) |-> IF keep[k] \in starts THEN by ELSE s[keep[k]]]
        \* .replace(/\s+\n/g, "\n"): white space goes when a line break
        \* follows it in the same run of white space
        dropBeforeBreak(s) ==
            LET keep == SelectSeq([q \in 1..Len(s) |-> q],
                            LAMBDA q : ~(/\ s[q] \in WS
                                         /\ \E b \in (q + 1)..Len(s) :
                                               /\ s[b] = "\n"
                                               /\ \A r \in q..b : s[r] \in WS))
            IN  [k \in 1..Len(keep) |-> s[keep[k]]]
        \* .replace(/\n{3,}/g, "\n\n")
        capBreaks(s) ==
            LET keep == SelectSeq([q \in 1..Len(s) |-> q],
                            LAMBDA q : ~(/\ q + 2 <= Len(s) /\ s[q] = "\n"
                                         /\ s[q + 1] = "\n" /\ s[q + 2] = "\n"))
            IN  [k \in 1..Len(keep) |-> s[keep[k]]]
    IN  trim(capBreaks(dropBeforeBreak(
            replaceTags(replaceTags(value, blockTag, "\n"), anyTag, ""))))

\* firstParagraph(value): the first piece of plain.split(/\n\s*\n/) that is
\* not blank, trimmed; plain is trimmed, so this is the piece before the
\* first separator
firstParagraph(value) ==
    LET source == trim(value)
        plain  == stripHtml(source)
        seps   == {q \in 1..Len(plain) :
                      /\ plain[q] = "\n"
                      /\ \E b \in (q + 1)..Len(plain) :
                            /\ plain[b] = "\n"
                            /\ \A r \in q..b : plain[r] \in WS}
    IN  IF source = <<>> \/ plain = <<>> THEN <<>>
        ELSE IF seps = {} THEN plain
        ELSE trim(SubSeq(plain, 1, (CHOOSE q \in seps : \A r \in seps : q <= r) - 1))

\* truncate(value, maxLength), with `limit` for its maxLength
truncate(value, limit) ==
    LET text == squash(value) IN
    IF Len(text) <= limit THEN text
    ELSE trimEnd(SubSeq(text, 1, limit - 1)) \o <<ELLIPSIS>>

\* a variant of applySummary that derives the summary whatever the data holds
applySummaryOverwrites(data) ==
    LET fromContent == truncate(firstParagraph(Str(data, "content")),
                                MAX_SUMMARY_LENGTH)
    IN  IF fromContent # <<>> THEN Merge(data, [summary |-> fromContent]) ELSE data

\* applySummary(data): the data object as the hook leaves it
applySummary(data) ==
    LET existingSummary == trim(Str(data, "summary"))
        fromContent == truncate(firstParagraph(Str(data, "content")),
                                MAX_SUMMARY_LENGTH)
    IN  IF existingSummary # <<>> THEN data
        ELSE IF fromContent # <<>> THEN Merge(data, [summary |-> fromContent])
        ELSE data

\* event.params.data of a request: a title, with or without a content (a
\* short text of markup, or a long text of one or two paragraphs), with or
\* without a summary (blank or not)
HookInit ==
    /\ script = "news-article"
    /\ LET long == { [i \in 1..n |-> IF i % k = 0 THEN " " ELSE "a"] :
                        n \in (MAX_SUMMARY_LENGTH - 1)..(MAX_SUMMARY_LENGTH + 2),
                        k \in {5, MAX_SUMMARY_LENGTH, 200} }
           contents ==
               SeqsOf({"<", ">", "/", "p", "b", "a", " ", "\n"}, 0, MaxMarkup)
                   \cup long
                   \cup { <<"a", "\n", "\n">> \o t : t \in long }
                   \cup { <<"<", "p", ">", "a", "<", "/", "p", ">",
                            "<", "p", ">", "b", "<", "/", "p", ">">>,
                          <<"<", "P", ">", "a", "<", "b", "r", "/", ">", "b">>,
                          <<"a", "\n", " ", "\n", "\n", "\n", "b">> }
           base == {[title |-> <<"T">>]}
                       \cup {[title |-> <<"T">>, content |-> c] : c \in contents}
       IN  payload \in base \cup { Merge(d, [summary |-> t]) :
                                      d \in base, t \in {<<>>, <<" ">>, <<"s">>} }
    /\ log = <<payload>>
    /\ pc = "request"
    /\ STRAPI_TOKEN = "token"
    /\ INPUT_PATH = "none" /\ file = NoFile
    /\ DRY_RUN = FALSE
    /\ UPSERT_MODE = "none"
    /\ FORCE_PUBLISH = FALSE /\ FORCE_UNPUBLISH = FALSE
    /\ ARTICLE_TYPE = "news"
    /\ ONLY_WHEN_EMPTY_BLOCKS = TRUE /\ CLEAR_LEGACY_CONTENT = FALSE
    /\ PAGE_SIZE = 100
    /\ rows = <<>>
    /\ page = 1 /\ pageCount = 1
    /\ store = <<>> /\ tagStore = <<>>
    /\ nextId = 1
    /\ idx = 0
    /\ created = 0 /\ updated = 0 /\ skipped = 0 /\ failed = 0
    /\ emptyContent = 0 /\ skippedNoContent = 0 /\ skippedHasBlocks = 0
    /\ skippedNoBlocksProduced = 0
    /\ seen = {}
    /\ key = <<>> /\ existing = null
    /\ tagNames = <<>> /\ tagIds = <<>>
    /\ requests = <<>>
    /\ exitCode = -1
    /\ faults = 0
    /\ runNo = 1
    /\ prev = NoRun

\* beforeCreate(event): the data of a create request pass the hook; `log`
\* keeps the data as they were and as each hook left them
BeforeCreate ==
    /\ script = "news-article" /\ pc = "request"
    /\ payload' = applySummary(payload)
    /\ log' = Append(log, payload')
    /\ pc' = "created"
    /\ created' = created + 1
    /\ UNCHANGED <<cfgVars, inputVars, DRY_RUN, store, tagStore, nextId, idx,
                   updated, skipped, failed, emptyContent, skippedNoContent,
                   skippedHasBlocks, skippedNoBlocksProduced, seen, key, existing,
                   tagNames, tagIds, requests, exitCode, faults, runNo, prev>>

\* beforeUpdate(event): the data of an update request pass the hook, be they
\* new or the data an earlier hook has left
BeforeUpdate ==
    /\ script = "news-article" /\ pc \in {"request", "created"}
    /\ payload' = applySummary(payload)
    /\ log' = Append(log, payload')
    /\ pc' = "updated"
    /\ updated' = updated + 1
    /\ UNCHANGED <<cfgVars, inputVars, DRY_RUN, store, tagStore, nextId, idx,
                   created, skipped, failed, emptyContent, skippedNoContent,
                   skippedHasBlocks, skippedNoBlocksProduced, seen, key, existing,
                   tagNames, tagIds, requests, exitCode, faults, runNo, prev>>

HookNext ==
    \/ BeforeCreate
    \/ BeforeUpdate

HookSpec == HookInit /\ [][HookNext]_vars

(***************************************************************************)
(* The in-place migrations alone, from the first request of their fetch    *)
(* loop, on a collection of up to MaxEntries entries read in pages of one, *)
(* two or a hundred, or on a collection of one entry with any content.     *)
(* Every request is answered in the end, with success or with an error.    *)
(***************************************************************************)
MigrateInit ==
    /\ script \in Migrations
    /\ STRAPI_TOKEN = "token"
    /\ INPUT_PATH = "none" /\ file = NoFile
    /\ UPSERT_MODE = "none"
    /\ FORCE_UNPUBLISH = FALSE
    /\ rows = <<>>
    /\ page = 1 /\ pageCount = 1
    /\ \/ /\ store \in SeqsOf(EntriesOf(script), 0, MaxEntries)
          /\ DRY_RUN \in BOOLEAN
          /\ FORCE_PUBLISH \in BOOLEAN
          /\ ARTICLE_TYPE \in (IF script = "migrate-article-blocks"
                               THEN {"blog", "news"} ELSE {"none"})
          /\ ONLY_WHEN_EMPTY_BLOCKS \in BOOLEAN
          /\ CLEAR_LEGACY_CONTENT \in BOOLEAN
          /\ PAGE_SIZE \in {1, 2, 100}
       \/ /\ \E content \in Contents :
                store = <<Entry("c1", "9",
                                Merge([x \in {KeyField(script)} |-> <<"/", "a">>],
                                      [content |-> content, contentBlocks |-> <<>>]))>>
          /\ DRY_RUN = FALSE
          /\ FORCE_PUBLISH = FALSE
          /\ ARTICLE_TYPE = (IF script = "migrate-article-blocks"
                             THEN "blog" ELSE "none")
          /\ ONLY_WHEN_EMPTY_BLOCKS = TRUE
          /\ CLEAR_LEGACY_CONTENT = FALSE
          /\ PAGE_SIZE = 100
    /\ tagStore = <<>>
    /\ nextId = FirstFreeId(script)
    /\ pc = "fetch"
    /\ idx = 0
    /\ created = 0 /\ updated = 0 /\ skipped = 0 /\ failed = 0
    /\ emptyContent = 0 /\ skippedNoContent = 0 /\ skippedHasBlocks = 0
    /\ skippedNoBlocksProduced = 0
    /\ seen = {}
    /\ key = <<>> /\ payload = <<>> /\ existing = null
    /\ tagNames = <<>> /\ tagIds = <<>>
    /\ requests = <<>>
    /\ log = <<[kind |-> "migrating"]>>
    /\ exitCode = -1
    /\ faults = 0
    /\ runNo = 1
    /\ prev = NoRun

MigrateNext ==
    \/ Fetch
    \/ MigrateRow
    \/ Update
    \/ Summary

MigrateSpec == MigrateInit /\ [][MigrateNext]_vars /\ WF_vars(Fetch)

(***************************************************************************)
(* Properties of the runs.  The log and the requests are read as the       *)
(* history of the run: one log line per row, every request with its row.   *)
(***************************************************************************)
\* the per-row lines of the log, in the order they were written
RowLog == SelectSeq(log, LAMBDA e : "line" \in DOMAIN e)

\* the requests sent on behalf of row j, out of the requests rs
RequestsOf(rs, j) == SelectSeq(rs, LAMBDA r : r.row = j)

\* the mutating requests among rs
Writes(rs) == SelectSeq(rs, LAMBDA r : r.method # "GET")

\* the writes to the script's own collection among rs
CollectionWrites(rs, method) ==
    SelectSeq(rs, LAMBDA r : r.method = method
                             /\ r.endpoint = Endpoint(script, ARTICLE_TYPE))

\* the positions of a run at which a row is in progress
RowStates == {"row", "lookup", "tags", "tagCreate", "update", "create"}

Sum == created + updated + skipped + failed

\* the lookup of the current row is answered with success
LookupAnswered == pc = "lookup" /\ faults' = faults

\* what the lookup of the current row finds in the store
Found == findFirst(store, KeyField(script), key)

\* the entry exposes neither documentId nor id
NoId(entry) == entry.documentId = undefined /\ entry.id = undefined

\* the normalized input row as the script sends it; the ids of an article's
\* tags are the store's, taken from the payload p
RowPayload(sc, row, p) ==
    CASE sc = "import-pages" ->
            mapRowToPayload(row, FORCE_PUBLISH, FORCE_UNPUBLISH)
      [] sc = "import-redirects" -> redirectPayload(row, FORCE_PUBLISH)
      [] sc = "import-articles" ->
            articlePayload(row, ARTICLE_TYPE,
                           IF "tags" \in DOMAIN p THEN p.tags ELSE <<>>,
                           FORCE_PUBLISH)
      [] sc \in Syncs -> syncCreatePayload(sc, row, FORCE_PUBLISH)

\* the natural key an importer's row resolves to
NaturalKey(sc, row) ==
    CASE sc = "import-pages" -> mapRowToPayload(row, FALSE, FALSE).routePath
      [] sc = "import-articles" -> articleSlug(row)
      [] sc = "import-redirects" -> redirectPayload(row, FALSE).fromPath

\* the row gets past the importer's validation
PassesValidation(sc, row) ==
    CASE sc = "import-pages" ->
            /\ ~safeJsonThrows(row)
            /\ mapRowToPayload(row, FALSE, FALSE).routePath # <<>>
            /\ mapRowToPayload(row, FALSE, FALSE).pageName # <<>>
      [] sc = "import-articles" ->
            articleTitle(row) # <<>> /\ articleSlug(row) # <<>>
      [] sc = "import-redirects" ->
            /\ redirectPayload(row, FALSE).fromPath # <<>>
            /\ redirectPayload(row, FALSE).toUrl # <<>>

\* the row's natural key or its required title/name is absent or blank
BlankRequired(sc, row) ==
    CASE sc = "import-pages" ->
            trim(Str(row, "routePath")) = <<>> \/ trim(Str(row, "pageName")) = <<>>
      [] sc = "import-articles" ->
            \/ trim(Str(row, "title")) = <<>>
            \/ (trim(Str(row, "slug")) = <<>> /\ slugify(trim(Str(row, "title"))) = <<>>)
      [] sc = "import-redirects" -> trim(Str(row, "fromPath")) = <<>>
      [] sc \in Syncs -> trim(Str(row, "routePath")) = <<>>

(***************************************************************************)
(* C1: in dry-run mode no run of any importer, sync script or in-place     *)
(* migration issues a POST or a PUT, tag creation included: every request  *)
(* of a dry run is a lookup or list GET.                                   *)
(***************************************************************************)
C1_DryRunIssuesNoWrite ==
    DRY_RUN => \A i \in 1..Len(requests) : requests[i].method = "GET"

\* a dry run of two rows ends having decided one create and one update
C1_Witness ==
    /\ DRY_RUN /\ pc = "done"
    /\ created > 0 /\ updated > 0
    /\ Len(requests) >= 2

(***************************************************************************)
(* C2: the created/updated/skipped/failed counters a dry run reports equal *)
(* the counters of a live run of the same script on the same input and the *)
(* same initial store, every request succeeding in both runs, also when    *)
(* several rows resolve to the same natural key.                           *)
(***************************************************************************)
C2_DryRunCountersEqualLive ==
    (runNo = 2 /\ pc = "done" /\ faults = 0)
        => /\ created = prev.created
           /\ updated = prev.updated
           /\ skipped = prev.skipped
           /\ failed  = prev.failed

(***************************************************************************)
(* C3: a per-row error never aborts the batch: rows are processed one by   *)
(* one in input order, every row before the current one has its log line,  *)
(* a run that started on its rows ends only after the line of the last row *)
(* with the summary as its last output, and the only run that ends with a  *)
(* fatal error is one that has not begun a row.                            *)
(***************************************************************************)
C3_RowErrorNeverAborts ==
    /\ \A i \in 1..Len(RowLog) : RowLog[i].line = i
    /\ \A i \in 1..(Len(requests) - 1) : requests[i].row <= requests[i + 1].row
    /\ pc \in RowStates => Len(RowLog) = idx - 1
    /\ (pc = "done" /\ rows # <<>> /\ exitCode # 1)
          => /\ Len(RowLog) = Len(rows)
             /\ log[Len(log)].kind = "summary"
             /\ exitCode = 0
    /\ exitCode = 1 => RowLog = <<>>

\* the first row failed on a request, the second one was written, the run
\* ended with its summary
C3_Witness ==
    /\ pc = "done" /\ Len(RowLog) = 2 /\ faults = 1
    /\ RowLog[1].kind = "fail"
    /\ RowLog[2].kind \in {"create", "update"}
    /\ log[Len(log)].kind = "summary"

(***************************************************************************)
(* C4: in every seed import the four counters never decrease, each row     *)
(* that ends increments exactly one of them by one, a step that ends no    *)
(* row leaves them alone, their sum after k rows is k, and at the end it   *)
(* is the number of input rows.                                            *)
(***************************************************************************)
C4_CountersPartitionRows ==
    /\ [](script \in Importers =>
            /\ Sum = Len(RowLog)
            /\ pc \in RowStates => Sum = idx - 1
            /\ (pc \in {"summary", "done"} /\ rows # <<>>) => Sum = Len(rows))
    /\ [][(script \in Importers /\ runNo' = runNo) =>
            /\ created' \in {created, created + 1}
            /\ updated' \in {updated, updated + 1}
            /\ skipped' \in {skipped, skipped + 1}
            /\ failed'  \in {failed, failed + 1}
            /\ Sum' = Sum + (IF idx > 0 /\ idx' = idx + 1 THEN 1 ELSE 0)]_vars

\* an import of two rows ended with one row created and one row failed
C4_Witness ==
    /\ script \in Importers /\ pc = "done" /\ Len(rows) = 2
    /\ created = 1 /\ failed = 1 /\ updated = 0 /\ skipped = 0

(***************************************************************************)
(* C5: in every importer (pages, articles, redirects), when a row resolves *)
(* to the natural key of an earlier row that passed validation, the later  *)
(* row is counted failed and no request is made for it.                    *)
(***************************************************************************)
C5_LaterDuplicateFails ==
    script \in Importers =>
        \A i, j \in 1..Len(RowLog) :
            (/\ i < j
             /\ PassesValidation(script, rows[i])
             /\ NaturalKey(script, rows[j]) = NaturalKey(script, rows[i]))
                => /\ RowLog[j].kind = "fail"
                   /\ RequestsOf(requests, j) = <<>>

\* the lookup found nothing and the run decides to create: a dry run counts
\* the row created and ends it, a live run goes on to its POST
DecidesCreate ==
    IF DRY_RUN
    THEN created' = created + 1 /\ idx' = idx + 1
         /\ Writes(requests') = Writes(requests)
    ELSE pc' = "create" /\ Sum' = Sum

\* the create of the current row: one POST to the collection with the
\* row's payload ends the row, counted created when the POST succeeds and
\* failed when it does not
PostsRow ==
    /\ payload = RowPayload(script, rows[idx], payload)
    /\ requests' = Append(requests, [method |-> "POST",
                                     endpoint |-> Endpoint(script, ARTICLE_TYPE),
                                     body |-> payload, row |-> idx])
    /\ idx' = idx + 1
    /\ IF faults' = faults
       THEN created' = created + 1 /\ failed' = failed
       ELSE created' = created /\ failed' = failed + 1

\* no row has more than one POST to the script's collection
AtMostOnePostPerRow ==
    \A j \in 1..Len(rows) :
        Len(CollectionWrites(RequestsOf(requests, j), "POST")) <= 1

(***************************************************************************)
(* C6 as stated: whenever the lookup of a validated row finds no existing  *)
(* record, the row's action is create (a dry run counts it created, a live *)
(* run sends exactly one POST to the collection with the payload),         *)
(* whatever the upsert mode, in the seed importers and the sync scripts.   *)
(***************************************************************************)
C6_MissingRecordIsCreated ==
    /\ []AtMostOnePostPerRow
    /\ [][/\ (LookupAnswered /\ Found = null) => DecidesCreate
          /\ pc = "create" => PostsRow]_vars

(***************************************************************************)
(* C6 as the code has it: when the lookup finds no existing record, a seed *)
(* importer creates it under either upsert mode and a sync script creates  *)
(* it under mode create; a sync script under mode skip counts the row      *)
(* skipped and sends no write.  The create is one POST to the collection   *)
(* with the row's payload, counted created when the POST succeeds and      *)
(* failed when it does not.                                                *)
(***************************************************************************)
C6_MissingRecordIsCreatedUnlessSyncSkips ==
    /\ []AtMostOnePostPerRow
    /\ [][/\ (LookupAnswered /\ Found = null) =>
                IF script \in Syncs /\ UPSERT_MODE = "skip"
                THEN /\ skipped' = skipped + 1 /\ created' = created
                     /\ idx' = idx + 1
                     /\ Writes(requests') = Writes(requests)
                ELSE DecidesCreate
          /\ pc = "create" => PostsRow]_vars

\* a live import under mode skip has created the record its row was missing
C6_Witness ==
    /\ script \in Importers /\ UPSERT_MODE = "skip" /\ ~DRY_RUN
    /\ created = 1 /\ Len(RowLog) = 1
    /\ Len(CollectionWrites(RequestsOf(requests, 1), "POST")) = 1
    /\ store # <<>> /\ store[Len(store)].data = RowPayload(script, rows[1],
                                                           store[Len(store)].data)

(***************************************************************************)
(* C7: whenever an existing record is found for a row's natural key and    *)
(* the upsert mode is skip, the row is counted skipped and no write (PUT,  *)
(* POST or tag creation) is issued on behalf of that row, in every script  *)
(* that accepts the skip mode.                                             *)
(***************************************************************************)
C7_SkipIssuesNoWrite ==
    [][(LookupAnswered /\ UPSERT_MODE = "skip" /\ Found # null) =>
          /\ skipped' = skipped + 1
          /\ idx' = idx + 1
          /\ Writes(RequestsOf(requests', idx)) = <<>>]_vars

\* the PUT of the current row: one PUT to <endpoint>/<id> of the record
\* found, with the row's payload, ends the row, counted updated when the PUT
\* succeeds and failed when it does not
PutsRow ==
    /\ payload = RowPayload(script, rows[idx], payload)
    /\ requests' = Append(requests,
          [method |-> "PUT", endpoint |-> Endpoint(script, ARTICLE_TYPE),
           id |-> IF existing.documentId # undefined
                  THEN existing.documentId ELSE existing.id,
           body |-> payload, row |-> idx])
    /\ idx' = idx + 1
    /\ IF faults' = faults
       THEN updated' = updated + 1 /\ failed' = failed
       ELSE updated' = updated /\ failed' = failed + 1

(***************************************************************************)
(* C8: whenever an importer's lookup finds an existing record with a       *)
(* resolvable id and the upsert mode is update, a live run goes on to      *)
(* exactly one PUT to <endpoint>/<id> whose body is the normalized input   *)
(* row, sends no POST to that collection for the row, and counts the row   *)
(* updated once the PUT is answered with success.                          *)
(***************************************************************************)
C8_ExistingRecordIsUpdated ==
    /\ [](\A j \in 1..Len(rows) :
            Len(CollectionWrites(RequestsOf(requests, j), "PUT")) <= 1
            /\ (CollectionWrites(RequestsOf(requests, j), "PUT") # <<>>
                  => CollectionWrites(RequestsOf(requests, j), "POST") = <<>>))
    /\ [][/\ (/\ script \in Importers /\ LookupAnswered
              /\ UPSERT_MODE = "update" /\ ~DRY_RUN
              /\ Found # null /\ ~NoId(Found))
                 => pc' = "update" /\ existing' = Found /\ Sum' = Sum
          /\ (script \in Importers /\ pc = "update") => PutsRow]_vars

\* a live import under mode update has sent its PUT to the documentId of
\* the record found and counted the row updated
C8_Witness ==
    /\ script \in Importers /\ UPSERT_MODE = "update" /\ ~DRY_RUN
    /\ updated = 1 /\ Len(RowLog) = 1
    /\ Len(CollectionWrites(RequestsOf(requests, 1), "PUT")) = 1
    /\ CollectionWrites(RequestsOf(requests, 1), "PUT")[1].id = "d1"

\* the record at hand for the current row exposes no id: the record an
\* importer or a sync script has just looked up, or the one a migration
\* has fetched
RecordWithoutId ==
    \/ LookupAnswered /\ Found # null /\ NoId(Found)
    \/ script \in Migrations /\ pc = "row" /\ NoId(rows[idx])

\* the row ends without a PUT and the run goes on
EndsWithoutPut ==
    /\ idx' = idx + 1
    /\ pc' \in {"row", "summary"}
    /\ SelectSeq(RequestsOf(requests', idx), LAMBDA r : r.method = "PUT") = <<>>

(***************************************************************************)
(* C9 as stated: when the existing record found for a row exposes neither  *)
(* documentId nor id, no update is attempted: the row is counted failed,   *)
(* no PUT is issued for it and the next row is processed.                  *)
(***************************************************************************)
C9_RecordWithoutIdFails ==
    [][RecordWithoutId => failed' = failed + 1 /\ EndsWithoutPut]_vars

(***************************************************************************)
(* C9 as the code has it: when the existing record exposes neither         *)
(* documentId nor id, no PUT is issued for the row and the next row is     *)
(* processed; the row is counted failed, except in a seed importer under   *)
(* mode skip, which counts it skipped without looking at the id.           *)
(***************************************************************************)
C9_RecordWithoutIdIsNeverUpdated ==
    [][RecordWithoutId =>
          /\ EndsWithoutPut
          /\ updated' = updated
          /\ IF script \in Importers /\ UPSERT_MODE = "skip"
             THEN skipped' = skipped + 1 /\ failed' = failed
             ELSE failed' = failed + 1 /\ skipped' = skipped]_vars

\* a live import under mode update found a record without id for its first
\* row, counted it failed, and went on to write its second row
C9_Witness ==
    /\ script \in Importers /\ UPSERT_MODE = "update" /\ ~DRY_RUN
    /\ store # <<>> /\ NoId(store[1])
    /\ Len(RowLog) = 2 /\ faults = 0
    /\ RowLog[1].kind = "fail" /\ RequestsOf(requests, 1) # <<>>
    /\ RowLog[2].kind = "create"

(***************************************************************************)
(* C10: in every importer and sync script a row whose natural key or       *)
(* required title/name is absent or blank fails validation: it is counted  *)
(* failed, no request is made for it, and the run goes on to its summary;  *)
(* a pages row with no routePath is failed rather than imported.           *)
(***************************************************************************)
C10_BlankRequiredFieldFails ==
    script \in Importers \cup Syncs =>
        /\ \A j \in 1..Len(RowLog) :
              BlankRequired(script, rows[j])
                 => RowLog[j].kind = "fail" /\ RequestsOf(requests, j) = <<>>
        /\ (pc = "done" /\ rows # <<>>) => log[Len(log)].kind = "summary"

(***************************************************************************)
(* C11: in the pages importer every written payload has its publish marker *)
(* decided as follows: FORCE_PUBLISH set, publishedAt is a timestamp, also *)
(* when FORCE_UNPUBLISH or the row's unpublish flag is set; otherwise,     *)
(* unpublish requested, publishedAt is null; otherwise the payload has no  *)
(* publishedAt key.                                                        *)
(***************************************************************************)
C11_PublishMarker ==
    script = "import-pages" =>
        \A i \in 1..Len(requests) :
            requests[i].method # "GET" =>
                LET body == requests[i].body
                    row  == rows[requests[i].row]
                    flag == toLowerCase(trim(Str(row, "unpublish"))) \in TrueWords
                IN  IF FORCE_PUBLISH
                    THEN "publishedAt" \in DOMAIN body /\ body.publishedAt = NOW
                    ELSE IF FORCE_UNPUBLISH \/ flag
                    THEN "publishedAt" \in DOMAIN body /\ body.publishedAt = null
                    ELSE "publishedAt" \notin DOMAIN body

\* a pages import with both flags set wrote a row that asks to be
\* unpublished, with a timestamp as its publish marker
C11_Witness ==
    /\ script = "import-pages" /\ FORCE_PUBLISH /\ FORCE_UNPUBLISH
    /\ \E i \in 1..Len(requests) :
          /\ requests[i].method # "GET"
          /\ "unpublish" \in DOMAIN rows[requests[i].row]
          /\ requests[i].body.publishedAt = NOW

\* the migration is at a fetched record that has an id and non-blank
\* legacy content
MigratableRecord ==
    /\ script \in Migrations /\ pc = "row"
    /\ ~NoId(rows[idx])
    /\ trim(rows[idx].data.content) # <<>>

\* the blocks the legacy text of the current record converts to
Regenerated == convertContentToBlocks(rows[idx].data.content, BlockPrefix(script))

(***************************************************************************)
(* C12: in the in-place migrations, for a record with an id and non-blank  *)
(* legacy content: when only-when-empty is true and the record has at      *)
(* least one content block, it is counted skipped (already has blocks) and *)
(* no request is sent for it; when only-when-empty is false, its blocks    *)
(* are regenerated from the legacy text and, in a live run, written with   *)
(* one PUT to the record's id, which replaces the record's blocks when it  *)
(* succeeds (a dry run counts the record updated and sends nothing).       *)
(***************************************************************************)
C12_OnlyWhenEmptyBlocks ==
    [][/\ (MigratableRecord /\ ONLY_WHEN_EMPTY_BLOCKS
              /\ Len(rows[idx].data.contentBlocks) > 0)
            => /\ skippedHasBlocks' = skippedHasBlocks + 1
               /\ updated' = updated /\ failed' = failed
               /\ idx' = idx + 1
               /\ requests' = requests /\ store' = store
       /\ (MigratableRecord /\ ~ONLY_WHEN_EMPTY_BLOCKS)
            => /\ Regenerated # <<>>
               /\ IF DRY_RUN
                  THEN /\ updated' = updated + 1 /\ idx' = idx + 1
                       /\ requests' = requests /\ store' = store
                  ELSE /\ pc' = "update" /\ updated' = updated
                       /\ payload'.contentBlocks = Regenerated
       /\ (script \in Migrations /\ pc = "update")
            => /\ requests' = Append(requests,
                     [method |-> "PUT", endpoint |-> Endpoint(script, ARTICLE_TYPE),
                      id |-> IF rows[idx].documentId # undefined
                             THEN rows[idx].documentId ELSE rows[idx].id,
                      body |-> payload, row |-> idx])
               /\ payload.contentBlocks = Regenerated
               /\ idx' = idx + 1
               /\ IF faults' = faults
                  THEN /\ updated' = updated + 1
                       /\ store'[idx].data.contentBlocks = Regenerated
                  ELSE failed' = failed + 1 /\ store' = store]_vars

\* a live migration with only-when-empty off has overwritten the blocks of
\* a record that already had some
C12_Witness ==
    /\ script \in Migrations /\ ~ONLY_WHEN_EMPTY_BLOCKS /\ ~DRY_RUN
    /\ updated >= 1
    /\ \E i \in 1..Len(requests) :
          /\ requests[i].method = "PUT"
          /\ Len(rows[requests[i].row].data.contentBlocks) > 0
          /\ store[requests[i].row].data.contentBlocks
                = requests[i].body.contentBlocks
          /\ store[requests[i].row].data.contentBlocks
                # rows[requests[i].row].data.contentBlocks

(***************************************************************************)
(* C13: a configuration error (missing token, upsert mode outside the      *)
(* allowed set, missing or invalid article type or input path, page size   *)
(* outside 1..100) aborts the run before the input is read, before any     *)
(* request is issued and before any row is processed: the run holds no     *)
(* row, has sent nothing, and ends with the error report alone and exit    *)
(* status 1.                                                               *)
(***************************************************************************)
C13_ConfigErrorAbortsBeforeAnyWork ==
    ConfigErrors(script, STRAPI_TOKEN, ARTICLE_TYPE, INPUT_PATH, UPSERT_MODE,
                 PAGE_SIZE) > 0
        => /\ pc \in {"start", "done"}
           /\ requests = <<>> /\ rows = <<>> /\ idx = 0 /\ Sum = 0
           /\ pc = "start" => log = <<>>
           /\ pc = "done" => log = <<[kind |-> "fatal"]>> /\ exitCode = 1

\* a run without its token ended on an input file that holds two rows
C13_Witness ==
    /\ STRAPI_TOKEN = "" /\ pc = "done" /\ exitCode = 1
    /\ UPSERT_MODE \in ModesOf(script)
    /\ file.readable /\ Len(file.json) = 2
    /\ store # <<>>

\* how many times the character c occurs in the text
RECURSIVE Count(_, _)
Count(text, c) ==
    IF text = <<>> THEN 0
    ELSE (IF Head(text) = c THEN 1 ELSE 0) + Count(Tail(text), c)

\* the input cannot be read or parsed: no file, a file that is no JSON where
\* JSON is expected, a CSV file that ends inside a quoted field, a file of
\* another kind
InputUnusable ==
    \/ script \notin Migrations /\ ~file.readable
    \/ script = "sync-page-content" /\ ~file.valid
    \/ script \in {"import-pages", "import-articles", "sync-page-blocks"}
          /\ \/ INPUT_PATH = "seed.json" /\ ~file.valid
             \/ INPUT_PATH = "seed.csv" /\ Count(file.text, "\"") % 2 = 1
             \/ INPUT_PATH = "seed.txt"

\* the run sent nothing but the page requests of its initial fetch, and one
\* of them failed
InitialFetchFailed ==
    /\ script \in Migrations /\ faults > 0 /\ requests # <<>>
    /\ \A k \in 1..Len(requests) :
          requests[k].method = "GET" /\ requests[k].page = k

(***************************************************************************)
(* C14: once the first row has started, the process can only end with exit *)
(* status 0, whatever the rows did; it ends with a non-zero status only    *)
(* when the error arose before any row: a configuration error, an input    *)
(* that cannot be read or parsed, a failed initial fetch.                  *)
(***************************************************************************)
C14_NonZeroExitOnlyBeforeFirstRow ==
    /\ [](exitCode \in {-1, 0, 1})
    /\ [](exitCode = 1 =>
            /\ pc = "done" /\ idx = 0 /\ RowLog = <<>> /\ Sum = 0
            /\ \A k \in 1..Len(requests) : requests[k].row = 0
            /\ \/ ConfigErrors(script, STRAPI_TOKEN, ARTICLE_TYPE, INPUT_PATH,
                                UPSERT_MODE, PAGE_SIZE) > 0
               \/ InputUnusable
               \/ InitialFetchFailed)
    /\ [][(idx >= 1 => /\ exitCode' # 1
                       /\ (pc # "done" /\ pc' = "done") => exitCode' = 0)]_vars

\* a run whose two rows both failed ended with exit status 0
C14_Witness ==
    /\ pc = "done" /\ exitCode = 0 /\ Len(rows) = 2 /\ failed = 2 /\ idx = 3

\* the run reads a CSV file that ends while a quoted field is still open
OpenQuoteAtEnd ==
    /\ script \in CsvReaders /\ file.readable
    /\ script # "import-redirects" => INPUT_PATH = "seed.csv"
    /\ Count(file.text, "\"") % 2 = 1

(***************************************************************************)
(* C15: in every importer that reads CSV, an input that ends inside an     *)
(* open quoted field makes parsing fail, and the failure ends the run      *)
(* before any row is processed and before any request is sent.             *)
(***************************************************************************)
C15_OpenQuoteAbortsTheRun ==
    (/\ script \in Importers /\ OpenQuoteAtEnd
     /\ ConfigErrors(script, STRAPI_TOKEN, ARTICLE_TYPE, INPUT_PATH, UPSERT_MODE,
                     PAGE_SIZE) = 0)
        => /\ pc \in {"start", "done"}
           /\ rows = <<>> /\ RowLog = <<>> /\ requests = <<>>
           /\ pc = "done" => exitCode = 1 /\ log = <<[kind |-> "fatal"]>>

(***************************************************************************)
(* What a CSV text denotes, read off the text by position: the quoted      *)
(* stretches, the records and their first lines, the cells and their       *)
(* content.                                                                *)
(***************************************************************************)
\* the text without a leading byte order mark
CsvBody(text) == IF text # <<>> /\ text[1] = BOM THEN Tail(text) ELSE text

\* position p of t lies inside a quoted field
Quoted(t, p) == Count(SubSeq(t, 1, p - 1), "\"") % 2 = 1

\* a line break starts at position p of t: \n, \r\n or a bare \r
LineBreakAt(t, p) ==
    \/ t[p] = "\r"
    \/ t[p] = "\n" /\ ~(p > 1 /\ t[p - 1] = "\r")

\* the last position of the line break that starts at p
BreakEnd(t, p) == IF t[p] = "\r" /\ p < Len(t) /\ t[p + 1] = "\n" THEN p + 1 ELSE p

\* the positions at which a record ends: the line breaks outside quotes
RecordBreaks(t) == { p \in 1..Len(t) : LineBreakAt(t, p) /\ ~Quoted(t, p) }

\* the positions at which a record begins
RecordStarts(t) ==
    { q \in {1} \cup { BreakEnd(t, p) + 1 : p \in RecordBreaks(t) } : q <= Len(t) }

\* the last position of the record that begins at q
RecordEnd(t, q) ==
    LET later == { p \in RecordBreaks(t) : p >= q }
    IN  IF later = {} THEN Len(t)
        ELSE (CHOOSE p \in later : \A o \in later : p <= o) - 1

\* the 1-based line of the text on which position q lies
LineOf(t, q) == 1 + Cardinality({ p \in 1..(q - 1) : LineBreakAt(t, p) })

\* the quote at position p stands for a literal quote: it is the first of
\* a doubled quote inside a quoted field
LiteralQuote(t, p) ==
    /\ t[p] = "\"" /\ p < Len(t) /\ t[p + 1] = "\""
    /\ LET first == CHOOSE q \in 1..p :
                        /\ \A o \in q..p : t[o] = "\""
                        /\ q = 1 \/ t[q - 1] # "\""
       IN  IF Quoted(t, first) THEN (p - first) % 2 = 0 ELSE (p - first) % 2 = 1

RECURSIVE CellText(_, _, _)
\* the content of the cell at positions a..b: every character but the
\* quotes that delimit or double
CellText(t, a, b) ==
    IF a > b THEN <<>>
    ELSE (IF t[a] # "\"" \/ LiteralQuote(t, a) THEN <<t[a]>> ELSE <<>>)
         \o CellText(t, a + 1, b)

RECURSIVE CellsOf(_, _, _)
\* the cells of the record at positions a..b: it is cut at the commas
\* outside quotes
CellsOf(t, a, b) ==
    LET commas == { c \in a..b : t[c] = "," /\ ~Quoted(t, c) }
    IN  IF commas = {} THEN <<CellText(t, a, b)>>
        ELSE LET c == CHOOSE x \in commas : \A o \in commas : x <= o
             IN  <<CellText(t, a, c - 1)>> \o CellsOf(t, c + 1, b)

RECURSIVE RecordsFrom(_, _)
\* the records of t that begin at the positions `starts`, in order: where
\* each begins, its first line and its cells
RecordsFrom(t, starts) ==
    IF starts = {} THEN <<>>
    ELSE LET q == CHOOSE x \in starts : \A o \in starts : x <= o
         IN  <<[line |-> LineOf(t, q), cells |-> CellsOf(t, q, RecordEnd(t, q))]>>
             \o RecordsFrom(t, starts \ {q})

\* the data records of a text: every record after the header
DataRecords(text) ==
    LET all == RecordsFrom(CsvBody(text), RecordStarts(CsvBody(text)))
    IN  IF all = <<>> THEN <<>> ELSE Tail(all)

\* the header names of a text
HeaderNames(text) ==
    LET all == RecordsFrom(CsvBody(text), RecordStarts(CsvBody(text)))
    IN  IF all = <<>> THEN <<>>
        ELSE [k \in 1..Len(all[1].cells) |-> trim(all[1].cells[k])]

\* a record with at least one cell that is not blank
NonBlank(rec) == \E k \in 1..Len(rec.cells) : trim(rec.cells[k]) # <<>>

\* the rows a text denotes: its data records that are not blank
DataRows(text) == SelectSeq(DataRecords(text), NonBlank)

\* the text has no unmatched quote
Balanced(text) == Count(text, "\"") % 2 = 0

\* the parser of the script returned
Parsed == pc = "done" /\ exitCode = 0

\* the row r has the columns and, up to surrounding blanks, the values of
\* the record rec under the header of the text
SameRow(r, rec, text) ==
    LET f == rowData(HeaderNames(text), rec.cells)
    IN  /\ DOMAIN r.fields = DOMAIN f
        /\ \A h \in DOMAIN f : trim(r.fields[h]) = trim(f[h])

(***************************************************************************)
(* C16: every row a CSV parser returns carries as __line the 1-based line  *)
(* of the text on which the row begins: the text has a data record with    *)
(* the row's values that begins on that line, also after quoted fields of  *)
(* several lines and after blank lines.                                    *)
(***************************************************************************)
C16_LineIsWhereTheRowBegins ==
    Parsed =>
        \A k \in 1..Len(rows) :
            \E j \in 1..Len(DataRecords(file.text)) :
                /\ DataRecords(file.text)[j].line = rows[k].line
                /\ SameRow(rows[k], DataRecords(file.text)[j], file.text)

(***************************************************************************)
(* C17: on every text without an unmatched quote, parseCsv of the pages    *)
(* importer (and its copies) returns without throwing, and returns in the  *)
(* order of the text exactly one row per data record that has a cell that  *)
(* is not blank: records whose cells are all blank give no row.            *)
(***************************************************************************)
C17_OneRowPerNonBlankRecord ==
    (script # "import-redirects" /\ pc = "done" /\ Balanced(file.text))
        => /\ exitCode = 0
           /\ Len(rows) = Len(DataRows(file.text))
           /\ \A k \in 1..Len(rows) :
                 rows[k].fields = rowData(HeaderNames(file.text),
                                          DataRows(file.text)[k].cells)

\* a text of three data records, the second of them blank, gave two rows
C17_Witness ==
    /\ script = "import-pages" /\ Parsed
    /\ Len(DataRecords(file.text)) = 3 /\ Len(rows) = 2
    /\ ~NonBlank(DataRecords(file.text)[2])
    /\ Count(file.text, " ") > 0

\* the text has a header record with a name in it and no blank data record
NoBlankRecord(text) ==
    /\ Len(DataRows(text)) = Len(DataRecords(text))
    /\ \E k \in 1..Len(HeaderNames(text)) : HeaderNames(text)[k] # <<>>

(***************************************************************************)
(* C18: in the CSV parsers a comma or a line break inside a quoted field   *)
(* is cell content and ends neither the cell nor the record, a doubled     *)
(* quote inside a quoted field is one literal quote, outside quotes each   *)
(* of \n, \r\n and a bare \r ends exactly one record, and a leading byte  *)
(* order mark is no part of the first header name: on a text without      *)
(* blank records every row returned has the columns and values of a data   *)
(* record of the text read that way, no record is lost, and no header      *)
(* name holds the mark.                                                    *)
(***************************************************************************)
C18_QuotesBreaksAndByteOrderMark ==
    (/\ script \in CsvReaders /\ Parsed
     /\ Balanced(file.text) /\ NoBlankRecord(file.text))
        => /\ \A k \in 1..Len(rows) :
                 \E j \in 1..Len(DataRecords(file.text)) :
                     SameRow(rows[k], DataRecords(file.text)[j], file.text)
           /\ Len(DataRows(file.text)) <= Len(rows)
           /\ Len(rows) <= Len(DataRecords(file.text))
           /\ \A k \in 1..Len(rows) :
                 \A h \in DOMAIN rows[k].fields : Count(h, BOM) = 0

\* what the conversions of the content returned so far
Conversions == SelectSeq(log, LAMBDA e : e.kind = "blocks")

OneSegment(content) ==
    /\ content # <<>> /\ trim(content) = content
    /\ \A p \in 1..(Len(content) - 1) : ~(content[p] = "\n" /\ content[p + 1] = "\n")

\* how many '#' the segment begins with
Markers(seg) ==
    Cardinality({ n \in 1..Len(seg) : \A p \in 1..n : seg[p] = "#" })

\* what follows the markers and the whitespace after them
AfterMarkers(seg) == trim(SubSeq(seg, Markers(seg) + 1, Len(seg)))

\* the segment begins with 1 to 4 markers, then whitespace, then text
MarkedSegment(seg) ==
    /\ Markers(seg) \in 1..4
    /\ Len(seg) > Markers(seg) /\ seg[Markers(seg) + 1] \in WS
    /\ AfterMarkers(seg) # <<>>

\* the segment matches ^(#{1,4})\s+(.+)$: the text after the markers and
\* the whitespace runs to the end of the segment on one line
SingleLineHeading(seg) ==
    MarkedSegment(seg) /\ Count(AfterMarkers(seg), "\n") = 0

\* the lines of the segment, trimmed, without the blank ones
LinesOf(seg) == trimAll(split(seg, {"\n"}))

\* every line of the segment is a list item: a bullet or a number, then
\* whitespace
ListSegment(seg) ==
    \/ \A k \in 1..Len(LinesOf(seg)) :
          LET l == LinesOf(seg)[k]
          IN  Len(l) >= 2 /\ l[1] \in {"-", "*"} /\ l[2] \in WS
    \/ \A k \in 1..Len(LinesOf(seg)) :
          LET l == LinesOf(seg)[k]
              d == Cardinality({ n \in 1..Len(l) : \A p \in 1..n : l[p] \in Digits })
          IN  d >= 1 /\ Len(l) >= d + 2 /\ l[d + 1] = "." /\ l[d + 2] \in WS

\* the line begins with a bullet marker: '-' or '*', then whitespace
BulletLine(l) == Len(l) >= 2 /\ l[1] \in {"-", "*"} /\ l[2] \in WS

\* how many digits the line begins with
DigitsAhead(l) == Cardinality({ n \in 1..Len(l) : \A p \in 1..n : l[p] \in Digits })

\* the line begins with a numeric marker: digits, '.', then whitespace
NumberLine(l) ==
    /\ DigitsAhead(l) >= 1 /\ Len(l) >= DigitsAhead(l) + 2
    /\ l[DigitsAhead(l) + 1] = "." /\ l[DigitsAhead(l) + 2] \in WS

\* the line without its own leading marker and the whitespace after it
ItemOf(l) ==
    trim(SubSeq(l, IF BulletLine(l) THEN 2 ELSE DigitsAhead(l) + 2, Len(l)))

RECURSIVE ItemsText(_)
\* the items, each prefixed "- ", one per line
ItemsText(ls) ==
    IF ls = <<>> THEN <<>>
    ELSE <<"-", " ">> \o ItemOf(Head(ls))
         \o (IF Len(ls) > 1 THEN <<"\n">> \o ItemsText(Tail(ls)) ELSE <<>>)

\* the blocks of conversion c are one list block
ListBlock(c) ==
    /\ Len(c.blocks) = 1
    /\ c.blocks[1].component = BlockPrefix(script) \o ".list"

\* the level the marker count stands for
LevelOf(n) == IF n = 1 THEN "h1" ELSE IF n = 2 THEN "h2" ELSE IF n = 3 THEN "h3" ELSE "h4"

\* the blocks of conversion c are one section-heading block
HeadingBlock(c) ==
    /\ Len(c.blocks) = 1
    /\ c.blocks[1].component = BlockPrefix(script) \o ".section-heading"

(***************************************************************************)
(* C20: a segment becomes a section-heading block exactly when it matches  *)
(* ^(#{1,4})\s+(.+)$, a single line of 1 to 4 markers, whitespace and     *)
(* text; the heading text is the text after the markers and the marker     *)
(* count gives the level h1..h4; a segment that does not match and is no   *)
(* list becomes a rich-text block with the segment as its body.            *)
(***************************************************************************)
C20_SingleLineHeadingRule ==
    \A i \in 1..Len(Conversions) :
        LET seg == rows[idx].content
            c   == Conversions[i]
        IN  OneSegment(seg) =>
              /\ SingleLineHeading(seg) <=> HeadingBlock(c)
              /\ SingleLineHeading(seg) =>
                    /\ c.blocks[1].text = AfterMarkers(seg)
                    /\ c.blocks[1].level = LevelOf(Markers(seg))
              /\ (~SingleLineHeading(seg) /\ ~ListSegment(seg)) =>
                    c.blocks = <<[component |-> BlockPrefix(script) \o ".rich-text",
                                  body |-> seg]>>

(***************************************************************************)
(* C20, as the converter has it: a segment becomes a section-heading block *)
(* exactly when it matches ^(#{1,4})\s+([\s\S]+)$, 1 to 4 markers,         *)
(* whitespace and text that may run over several lines of the segment;     *)
(* the heading text is all that follows the markers, trimmed, and the      *)
(* marker count gives the level h1..h4; a segment that does not match and  *)
(* is no list becomes a rich-text block with the segment as its body.      *)
(***************************************************************************)
C20_HeadingRuleOverLines ==
    \A i \in 1..Len(Conversions) :
        LET seg == rows[idx].content
            c   == Conversions[i]
        IN  OneSegment(seg) =>
              /\ MarkedSegment(seg) <=> HeadingBlock(c)
              /\ MarkedSegment(seg) =>
                    /\ c.blocks[1].text = AfterMarkers(seg)
                    /\ c.blocks[1].level = LevelOf(Markers(seg))
              /\ (~MarkedSegment(seg) /\ ~ListSegment(seg)) =>
                    c.blocks = <<[component |-> BlockPrefix(script) \o ".rich-text",
                                  body |-> seg]>>

\* a segment of two markers and two lines of text was converted to one
\* heading block of level h2
C20_Witness ==
    /\ Conversions # <<>>
    /\ OneSegment(rows[idx].content)
    /\ Markers(rows[idx].content) = 2
    /\ Count(AfterMarkers(rows[idx].content), "\n") = 1
    /\ HeadingBlock(Conversions[1])
    /\ Conversions[1].blocks[1].level = "h2"

(***************************************************************************)
(* C21: a segment that is no heading becomes a list block exactly when all *)
(* of its non-empty lines carry a bullet marker (style unordered) or all   *)
(* carry a numeric marker (style ordered); a segment that mixes the two    *)
(* kinds, or has a line without marker, is rich-text; each item is its     *)
(* line with exactly its own leading marker removed, and itemsText is the  *)
(* items in line order, each prefixed "- ", joined by line feeds.          *)
(***************************************************************************)
C21_ListRule ==
    \A i \in 1..Len(Conversions) :
        LET seg  == rows[idx].content
            c    == Conversions[i]
            ls   == LinesOf(seg)
            allB == \A k \in 1..Len(ls) : BulletLine(ls[k])
            allN == \A k \in 1..Len(ls) : NumberLine(ls[k])
        IN  (OneSegment(seg) /\ ~MarkedSegment(seg)) =>
              /\ (allB \/ allN) <=> ListBlock(c)
              /\ allB => c.blocks[1].listStyle = "unordered"
              /\ allN => c.blocks[1].listStyle = "ordered"
              /\ (allB \/ allN) => c.blocks[1].itemsText = ItemsText(ls)
              /\ ~(allB \/ allN) =>
                    c.blocks = <<[component |-> BlockPrefix(script) \o ".rich-text",
                                  body |-> seg]>>

\* position p of the content lies in a run of two or more line feeds
InBlankRun(t, p) ==
    /\ t[p] = "\n"
    /\ \/ p > 1 /\ t[p - 1] = "\n"
       \/ p < Len(t) /\ t[p + 1] = "\n"

\* the positions at which a paragraph of the content begins
ParagraphStarts(t) ==
    { q \in 1..Len(t) : ~InBlankRun(t, q) /\ (q = 1 \/ InBlankRun(t, q - 1)) }

\* the last position of the paragraph that begins at q
ParagraphEnd(t, q) ==
    CHOOSE r \in q..Len(t) :
        /\ \A o \in q..r : ~InBlankRun(t, o)
        /\ r = Len(t) \/ InBlankRun(t, r + 1)

RECURSIVE ParagraphsFrom(_, _)
\* the paragraphs that begin at the positions `starts`, in the order of the
\* content, each trimmed
ParagraphsFrom(t, starts) ==
    IF starts = {} THEN <<>>
    ELSE LET q == CHOOSE x \in starts : \A o \in starts : x <= o
         IN  <<trim(SubSeq(t, q, ParagraphEnd(t, q)))>>
             \o ParagraphsFrom(t, starts \ {q})

\* the segments of a content: its paragraphs that are not blank, in the
\* order of the content
Segments(content) ==
    SelectSeq(ParagraphsFrom(content, ParagraphStarts(content)),
              LAMBDA seg : seg # <<>>)

(***************************************************************************)
(* C22: the blocks convertContentToBlocks returns are in the order of the  *)
(* segments of the text: there is one block per segment, and block k is    *)
(* the block the k-th segment converts to on its own.  The text of three   *)
(* paragraphs "# Title", "Some body text.", "- a\n- b" gives exactly the   *)
(* heading h1 "Title", the rich-text "Some body text." and the unordered   *)
(* list of a and b, in that order.                                         *)
(***************************************************************************)
C22_BlocksFollowSegmentOrder ==
    \A i \in 1..Len(Conversions) :
        LET content == rows[idx].content
            blocks  == Conversions[i].blocks
        IN  /\ Len(blocks) = Len(Segments(content))
            /\ \A k \in 1..Len(blocks) :
                  <<blocks[k]>> = convertContentToBlocks(Segments(content)[k],
                                                         BlockPrefix(script))
            /\ content = ScenarioContent =>
                  blocks = << [component |-> BlockPrefix(script) \o ".section-heading",
                               text |-> <<"T", "i", "t", "l", "e">>, level |-> "h1"],
                              [component |-> BlockPrefix(script) \o ".rich-text",
                               body |-> <<"S", "o", "m", "e", " ", "b", "o", "d", "y",
                                          " ", "t", "e", "x", "t", ".">>],
                              [component |-> BlockPrefix(script) \o ".list",
                               listStyle |-> "unordered",
                               itemsText |-> <<"-", " ", "a", "\n", "-", " ", "b">>] >>

\* the text of three paragraphs was converted to three blocks
C22_Witness ==
    /\ Conversions # <<>>
    /\ rows[idx].content = ScenarioContent
    /\ Len(Segments(rows[idx].content)) = 3
    /\ Len(Conversions[1].blocks) = 3

\* the row has a title and no explicit slug
TitledWithoutSlug(row) ==
    trim(Str(row, "title")) # <<>> /\ trim(Str(row, "slug")) = <<>>

\* the text is a lowercase, hyphen-separated slug: characters of a-z, 0-9
\* and '-' only, no hyphen at either end, no two hyphens in a row
SlugShaped(t) ==
    /\ \A p \in 1..Len(t) :
          t[p] \in {LowerAZ[i] : i \in 1..Len(LowerAZ)} \cup Digits \cup {"-"}
    /\ t # <<>> => t[1] # "-" /\ t[Len(t)] # "-"
    /\ \A p \in 1..(Len(t) - 1) : ~(t[p] = "-" /\ t[p + 1] = "-")

\* the text has a letter or a digit
HasAlphanumeric(t) ==
    \E p \in 1..Len(t) :
        t[p] \in {LowerAZ[i] : i \in 1..Len(LowerAZ)}
                 \cup {UpperAZ[i] : i \in 1..Len(UpperAZ)} \cup Digits

(***************************************************************************)
(* C23: for every article row with a title and no explicit slug, the key   *)
(* the importer derives from the title (the key of its lookup and the slug *)
(* of its payload) has characters of [a-z0-9-] only, neither begins nor    *)
(* ends with a hyphen and has no two adjacent hyphens; when nothing of the *)
(* title is left for the key, the row is counted failed and no request is  *)
(* made for it.                                                            *)
(***************************************************************************)
C23_DerivedSlugIsWellFormed ==
    script = "import-articles" =>
        /\ (pc \in RowStates \ {"row"} /\ TitledWithoutSlug(rows[idx]))
              => key # <<>> /\ SlugShaped(key)
        /\ \A i \in 1..Len(requests) :
              (requests[i].row >= 1 /\ TitledWithoutSlug(rows[requests[i].row])
                                   /\ requests[i].endpoint # TagEndpoint)
                 => LET slug == IF requests[i].method = "GET"
                                THEN requests[i].value ELSE requests[i].body.slug
                    IN  slug # <<>> /\ SlugShaped(slug)
        /\ \A j \in 1..Len(RowLog) :
              (TitledWithoutSlug(rows[j]) /\ ~HasAlphanumeric(rows[j].title))
                 => RowLog[j].kind = "fail" /\ RequestsOf(requests, j) = <<>>

\* a row titled "B !-a" was created under the slug "b-a"
C23_Witness ==
    /\ script = "import-articles" /\ pc = "done" /\ created = 1
    /\ rows[1] = [title |-> <<"B", " ", "!", "-", "a">>]
    /\ store # <<>> /\ store[1].data.slug = <<"b", "-", "a">>

\* the metaDescription values the run has sent so far
SentDescriptions ==
    { requests[i].body.seo[1].metaDescription :
          i \in { n \in 1..Len(requests) :
                      /\ requests[n].method # "GET"
                      /\ requests[n].endpoint # TagEndpoint } }

(***************************************************************************)
(* C24: whatever the explicit value and the fallback, every metaDescription *)
(* the articles importer sends is at least 120 and at most 155 characters  *)
(* long, and one that was cut ends with the ellipsis after at most 154     *)
(* characters of the text.                                                 *)
(***************************************************************************)
C24_MetaDescriptionLength ==
    script = "import-articles" =>
        \A d \in SentDescriptions :
            /\ Len(d) >= 120 /\ Len(d) <= 155
            /\ \A p \in 1..(Len(d) - 1) : d[p] # ELLIPSIS

\* the positions of the tag creations among the requests of the run
TagPosts ==
    { i \in 1..Len(requests) :
          requests[i].method = "POST" /\ requests[i].endpoint = TagEndpoint }

\* the tag was created by a run of the importer: the store gave it its id
CreatedTag(e) == e.id \notin { t.id : t \in TagEntries }

(***************************************************************************)
(* C25: tag creation is idempotent by slug.  A dry run creates no tag.  In *)
(* a live run every POST /api/content-tags comes directly after the lookup *)
(* of the slug of its name, in the same row, at a moment the store holds   *)
(* no tag of that slug; so no tag a run creates has the slug of a tag the  *)
(* store already holds, from before the run, from an earlier run or from   *)
(* an earlier name of the same run, also when a name is repeated within a  *)
(* row or across rows.                                                     *)
(***************************************************************************)
C25_TagCreationIsIdempotent ==
    script = "import-articles" =>
        /\ DRY_RUN => TagPosts = {}
        /\ \A i \in TagPosts :
              /\ i > 1
              /\ requests[i - 1] = [method |-> "GET", endpoint |-> TagEndpoint,
                                    field |-> "slug",
                                    value |-> requests[i].body.slug,
                                    row |-> requests[i].row]
              /\ SlugShaped(requests[i].body.slug)
              /\ requests[i].body.slug # <<>>
              /\ requests[i].body.slug = slugify(requests[i].body.name)
        /\ pc = "tagCreate" =>
              \A k \in 1..Len(tagStore) :
                  tagStore[k].data.slug # slugify(Head(tagNames))
        /\ \A j \in 1..Len(tagStore) :
              CreatedTag(tagStore[j]) =>
                  \A k \in 1..(j - 1) : tagStore[k].data.slug # tagStore[j].data.slug

\* a live run on a row that names the tag t twice, the tag U once and a
\* tag without slug has created the two tags, each once, and attached t
\* twice
C25_Witness ==
    /\ script = "import-articles" /\ ~DRY_RUN /\ pc = "done" /\ faults = 0
    /\ Len(rows) = 1 /\ created = 1
    /\ Len(parseTags(rows[1])) = 4
    /\ Cardinality(TagPosts) = 2
    /\ Len(tagStore) = 2
    /\ Len(store[Len(store)].data.tags) = 3
    /\ store[Len(store)].data.tags[1] = store[Len(store)].data.tags[3]

\* the list requests of the fetch loop, in the order they were sent
FetchRequests == SelectSeq(requests, LAMBDA r : r.row = 0)

\* how many pages of PAGE_SIZE entries the collection has
PagesOfStore ==
    CHOOSE n \in 0..Len(store) :
        /\ n * PAGE_SIZE >= Len(store)
        /\ \A m \in 0..(n - 1) : m * PAGE_SIZE < Len(store)

\* the fetch loop returned: the run is past it and was not ended by an error
FetchReturned == pc # "fetch" /\ exitCode # 1

(***************************************************************************)
(* C26: the fetch loop of an in-place migration requests the pages 1, 2,   *)
(* ... in increasing order, one request per page, page 1 always; it stops  *)
(* once the page number exceeds the pageCount the store last reported, and *)
(* returns the records of all fetched pages in fetch order, which are all  *)
(* the records of the collection; no record is processed before the last   *)
(* page has been fetched; and the loop terminates.                         *)
(***************************************************************************)
C26_FetchAllPages ==
    /\ [](script \in Migrations =>
            /\ \A k \in 1..Len(FetchRequests) :
                  /\ FetchRequests[k].method = "GET"
                  /\ FetchRequests[k].page = k
                  /\ FetchRequests[k].pageSize = PAGE_SIZE
                  /\ requests[k] = FetchRequests[k]
            /\ pc # "fetch" => Len(FetchRequests) >= 1
            /\ Len(FetchRequests) <= (IF PagesOfStore > 1 THEN PagesOfStore ELSE 1)
            /\ FetchReturned =>
                  /\ Len(FetchRequests) = (IF PagesOfStore > 1 THEN PagesOfStore ELSE 1)
                  /\ Len(FetchRequests) + 1 > pageCount
                  /\ pageCount = PagesOfStore
                  /\ Len(rows) = Len(store)
                  /\ \A k \in 1..Len(rows) :
                        /\ rows[k].documentId = store[k].documentId
                        /\ rows[k].id = store[k].id
            /\ (idx >= 1 \/ RowLog # <<>>) => FetchReturned)
    /\ [][(script \in Migrations /\ pc = "fetch" /\ pc' # "fetch" /\ exitCode' # 1)
             => rows' = store]_vars
    /\ (pc = "fetch" ~> pc # "fetch")

\* a migration fetched a collection of three entries in three pages of one
\* and went on to its first record
C26_Witness ==
    /\ script \in Migrations /\ PAGE_SIZE = 1 /\ Len(store) = 3
    /\ pc = "row" /\ idx = 1
    /\ Len(requests) = 3 /\ requests[3].page = 3
    /\ Len(rows) = 3

\* the key lookups among the requests rs: the GETs to the script's own
\* collection
KeyLookups(rs) ==
    SelectSeq(rs, LAMBDA r : r.method = "GET"
                             /\ r.endpoint = Endpoint(script, ARTICLE_TYPE))

(***************************************************************************)
(* C27: rows are processed strictly one at a time in source order, with at *)
(* most one remote request in flight.  A request and its answer are one    *)
(* step of a run (the request is awaited); every step sends at most one    *)
(* request, for the row being processed; the requests of row i all precede *)
(* those of row i + 1; each row gets at most one key lookup and at most    *)
(* one create or update request; and a request that fails ends its row,    *)
(* counted failed: it is not sent again.                                   *)
(***************************************************************************)
C27_OneRowAndOneRequestAtATime ==
    /\ [](script \in Importers \cup Syncs =>
            /\ \A i \in 1..(Len(requests) - 1) :
                  requests[i].row <= requests[i + 1].row
            /\ \A i \in 1..Len(requests) :
                  /\ requests[i].row >= 1 /\ requests[i].row <= idx
                  /\ pc \in {"row", "summary", "done"} => requests[i].row < idx
            /\ \A j \in 1..Len(rows) :
                  /\ Len(KeyLookups(RequestsOf(requests, j))) <= 1
                  /\ Len(CollectionWrites(RequestsOf(requests, j), "POST"))
                        + Len(CollectionWrites(RequestsOf(requests, j), "PUT")) <= 1
            /\ \A i \in 1..Len(RowLog) : RowLog[i].line = i)
    /\ [][(script \in Importers \cup Syncs /\ runNo' = runNo) =>
            /\ idx' \in {idx, idx + 1}
            /\ requests' # requests =>
                  /\ Len(requests') = Len(requests) + 1
                  /\ SubSeq(requests', 1, Len(requests)) = requests
                  /\ requests'[Len(requests')].row = idx
                  /\ pc \in RowStates
            /\ faults' # faults =>
                  /\ faults' = faults + 1
                  /\ Len(requests') = Len(requests) + 1
                  /\ idx' = idx + 1
                  /\ failed' = failed + 1]_vars

\* a live import of two rows: the lookup of the first row failed, and the
\* second row was looked up and written, each once
C27_Witness ==
    /\ script \in Importers /\ ~DRY_RUN /\ pc = "done" /\ faults = 1
    /\ Len(rows) = 2 /\ failed = 1
    /\ Len(RequestsOf(requests, 1)) = 1
    /\ Len(KeyLookups(RequestsOf(requests, 2))) = 1
    /\ Len(Writes(RequestsOf(requests, 2))) = 1

\* the update requests sent so far
Updates == SelectSeq(requests, LAMBDA r : r.method = "PUT")

\* the fields a payload holds besides those of always
FieldsWhen(always, clearLegacy, forcePublish) ==
    always \cup (IF clearLegacy THEN {"content"} ELSE {})
           \cup (IF forcePublish THEN {"publishedAt"} ELSE {})

(***************************************************************************)
(* C28: in sync:page-content every update of an existing page carries the  *)
(* row's content, publishedAt exactly when FORCE_PUBLISH is set, and no    *)
(* other field (no routePath, pageName, isActive, seo or contentBlocks).   *)
(***************************************************************************)
C28_ContentSyncUpdatesContentOnly ==
    script = "sync-page-content" =>
        \A i \in 1..Len(Updates) :
            LET r == Updates[i] IN
            /\ DOMAIN r.body = FieldsWhen({"content"}, FALSE, FORCE_PUBLISH)
            /\ r.body.content = Str(rows[r.row], "content")
            /\ FORCE_PUBLISH => r.body.publishedAt = NOW

\* a content sync with FORCE_PUBLISH set has updated a page
C28_Witness ==
    /\ script = "sync-page-content" /\ pc = "done" /\ updated >= 1
    /\ Len(Updates) >= 1
    /\ FORCE_PUBLISH /\ "publishedAt" \in DOMAIN Updates[1].body

(***************************************************************************)
(* C29: in the in-place migrations and in sync:page-blocks every update    *)
(* carries contentBlocks, content as the empty string exactly when         *)
(* CLEAR_LEGACY_CONTENT is set, publishedAt exactly when FORCE_PUBLISH is  *)
(* set, and no other field: the legacy content is cleared only by a write  *)
(* that stores the new blocks.                                             *)
(***************************************************************************)
C29_BlockUpdatesCarryBlocksOnly ==
    script \in Migrations \cup {"sync-page-blocks"} =>
        \A i \in 1..Len(Updates) :
            LET r == Updates[i] IN
            /\ DOMAIN r.body = FieldsWhen({"contentBlocks"}, CLEAR_LEGACY_CONTENT,
                                          FORCE_PUBLISH)
            /\ CLEAR_LEGACY_CONTENT => r.body.content = <<>>
            /\ FORCE_PUBLISH => r.body.publishedAt = NOW
            /\ script \in Migrations => Len(r.body.contentBlocks) >= 1

\* a migration has updated an entry without clearing its legacy content
C29_Witness ==
    /\ script \in Migrations /\ ~CLEAR_LEGACY_CONTENT /\ pc = "done"
    /\ Len(Updates) >= 1
    /\ "content" \notin DOMAIN Updates[1].body
    /\ Len(Updates[1].body.contentBlocks) >= 1

\* the log lines about row j
LinesAbout(j) == SelectSeq(RowLog, LAMBDA e : e.line = j)

\* the line of the input on which row j begins: its position in a JSON
\* array, the line of its data record in a CSV text
SourceLine(j) ==
    IF INPUT_PATH = "seed.json" THEN j ELSE DataRows(file.text)[j].line

(***************************************************************************)
(* C30: in the pages and articles importers a row whose schemaJson is a    *)
(* non-blank string that is not valid JSON is counted failed exactly once, *)
(* with an error that names the line of the input on which the row         *)
(* begins; no create or update request is sent for it; and the run goes on *)
(* with the next row.                                                      *)
(***************************************************************************)
C30_InvalidSchemaJsonFailsTheRow ==
    script \in {"import-pages", "import-articles"} =>
        \A j \in 1..Len(rows) :
            (safeJsonThrows(rows[j]) /\ j < idx) =>
                /\ Len(LinesAbout(j)) = 1
                /\ LinesAbout(j)[1].kind = "fail"
                /\ LinesAbout(j)[1].lineNumber = SourceLine(j)
                /\ CollectionWrites(RequestsOf(requests, j), "POST") = <<>>
                /\ CollectionWrites(RequestsOf(requests, j), "PUT") = <<>>
                /\ log[Len(log)].kind # "fatal"
                /\ pc = "done" => exitCode = 0 /\ Len(RowLog) = Len(rows)

\* the path the row names, as written in the input
WrittenPath(row) ==
    Str(row, IF script = "import-redirects" THEN "fromPath" ELSE "routePath")

\* the path the script makes of it
NormalizedPath(row) ==
    IF script = "import-redirects" THEN normalisePath(WrittenPath(row))
    ELSE normalizePath(WrittenPath(row))

\* one leading slash and no trailing one, or the root path
WellFormedPath(n) ==
    \/ n = <<"/">>
    \/ /\ Len(n) >= 2
       /\ n[1] = "/" /\ n[2] # "/"
       /\ n[Len(n)] # "/"

\* the lookups, the writes and the duplicate detection of row j use n
UsedAsKey(j, n) ==
    /\ \A i \in 1..Len(requests) :
          requests[i].row = j =>
              IF requests[i].method = "GET" THEN requests[i].value = n
              ELSE requests[i].body[KeyField(script)] = n
    /\ (script = "import-pages" /\ n # <<>> /\ j < idx) => n \in seen

(***************************************************************************)
(* C31: for every row whose explicit path is not blank, the normalized     *)
(* path begins with exactly one slash and has no trailing slash, or is the *)
(* root path /; and the lookup, the duplicate detection and the written    *)
(* payload of the row use this normalized path.                            *)
(***************************************************************************)
C31_NormalizedPathIsTheKey ==
    \A j \in 1..Len(rows) :
        trim(WrittenPath(rows[j])) # <<>> =>
            /\ WellFormedPath(NormalizedPath(rows[j]))
            /\ UsedAsKey(j, NormalizedPath(rows[j]))

\* no two entries of the collection have the same natural key
NoDuplicateKeys ==
    \A a, b \in 1..Len(store) :
        store[a].data[KeyField(script)] = store[b].data[KeyField(script)] => a = b

(***************************************************************************)
(* C32: the import is idempotent.  In a second live run of a script on the *)
(* same input, after a first live run that ended with no failed row and    *)
(* against the collection as that run left it, no record is created: every *)
(* row is updated or skipped (or fails, when a request of the second run   *)
(* fails); and the collection never holds two records with the same        *)
(* natural key, whatever rows the input repeats.                           *)
(***************************************************************************)
C32_ImportIsIdempotent ==
    /\ NoDuplicateKeys
    /\ (runNo = 2 /\ prev.failed = 0) =>
          /\ created = 0
          /\ Writes(requests) = CollectionWrites(requests, "PUT")
          /\ (pc = "done" /\ faults = prev.faults) =>
                /\ failed = 0
                /\ updated + skipped = Len(rows)

\* the first run created both records, the second updated both
C32_Witness ==
    /\ runNo = 2 /\ pc = "done" /\ prev.failed = 0 /\ prev.created = 2
    /\ created = 0 /\ updated = 2 /\ Len(store) = 2

\* the data object as the request had it, and as the first hook left it
HookBefore == log[1]
HookAfter == log[2]

\* the content is written without markup: it has no angle bracket
PlainContent(data) ==
    \A i \in 1..Len(Str(data, "content")) :
        Str(data, "content")[i] \notin {"<", ">"}

\* the first paragraph of a content without markup: the text before its
\* first blank line, leading blank lines apart
ParagraphOne(text) ==
    LET body == trim(text)
        gaps == {q \in 1..Len(body) :
                    /\ body[q] = "\n"
                    /\ \E b \in (q + 1)..Len(body) :
                          /\ body[b] = "\n"
                          /\ \A r \in q..b : body[r] \in WS}
    IN  IF gaps = {} THEN body
        ELSE trim(SubSeq(body, 1, (CHOOSE q \in gaps : \A r \in gaps : q <= r) - 1))

\* summary is the paragraph para, cut to the limit: para itself (up to its
\* white space) when that has at most 170 characters, else at most 170
\* characters that begin para and end with the ellipsis
SummaryOf(summary, para) ==
    IF Len(squash(para)) <= MAX_SUMMARY_LENGTH
    THEN summary = squash(para)
    ELSE /\ Len(summary) <= MAX_SUMMARY_LENGTH
         /\ summary[Len(summary)] = ELLIPSIS
         /\ SubSeq(summary, 1, Len(summary) - 1)
                = SubSeq(squash(para), 1, Len(summary) - 1)

(***************************************************************************)
(* C33: when a news article is created or updated with an absent or blank  *)
(* summary and a content that has text, the hook sets the summary to the   *)
(* first paragraph of the content stripped of markup, in at most 170       *)
(* characters, ending with the ellipsis exactly when the paragraph was     *)
(* longer.  Stated on contents without markup, whose paragraphs are the    *)
(* texts between blank lines.                                              *)
(***************************************************************************)
C33_SummaryIsTheFirstParagraph ==
    (/\ script = "news-article" /\ Len(log) >= 2
     /\ trim(Str(HookBefore, "summary")) = <<>>
     /\ PlainContent(HookBefore)
     /\ trim(Str(HookBefore, "content")) # <<>>)
        => /\ "summary" \in DOMAIN HookAfter
           /\ SummaryOf(HookAfter.summary, ParagraphOne(Str(HookBefore, "content")))

(***************************************************************************)
(* C39: the summary hook never overwrites text the author provided.  When  *)
(* the summary of the data is not blank, or when the content yields no     *)
(* text, beforeCreate and beforeUpdate leave the data object as it was; in *)
(* every case they leave every field but the summary as it was; and the   *)
(* hook applied to data it has already passed changes nothing.             *)
(***************************************************************************)
C39_HookKeepsAuthorText ==
    (script = "news-article" /\ Len(log) >= 2) =>
        /\ (\/ trim(Str(HookBefore, "summary")) # <<>>
            \/ firstParagraph(Str(HookBefore, "content")) = <<>>)
               => HookAfter = HookBefore
        /\ DOMAIN HookAfter \in {DOMAIN HookBefore, DOMAIN HookBefore \cup {"summary"}}
        /\ \A f \in DOMAIN HookBefore \ {"summary"} : HookAfter[f] = HookBefore[f]
        /\ Len(log) >= 3 => log[3] = HookAfter

\* data with a summary and a content that has text have passed both hooks
C39_Witness ==
    /\ script = "news-article" /\ pc = "updated" /\ Len(log) = 3
    /\ Str(HookBefore, "summary") = <<"s">>
    /\ firstParagraph(Str(HookBefore, "content")) = <<"a", " ", "b">>
    /\ log[3] = HookBefore

\* the content of the k-th record a migration scans
LegacyContent(k) == rows[k].data.content

(***************************************************************************)
(* C34: convertContentToBlocks returns exactly one block per segment of    *)
(* the content (a paragraph between blank lines that is not empty once     *)
(* trimmed): no segment is omitted.  A content with a character that is no *)
(* white space gives at least one block, so no record is ever skipped for  *)
(* a conversion without blocks: the counter of such skips stays 0, and     *)
(* every update carries as many blocks as the content has segments.        *)
(***************************************************************************)
C34_NoSegmentIsOmitted ==
    script \in Migrations =>
        /\ skippedNoBlocksProduced = 0
        /\ \A i \in 1..Len(RowLog) : RowLog[i].kind # "skip-no-blocks"
        /\ \A k \in 1..Len(rows) :
              LET blocks == convertContentToBlocks(LegacyContent(k),
                                                   BlockPrefix(script))
              IN  /\ Len(blocks) = Len(Segments(LegacyContent(k)))
                  /\ trim(LegacyContent(k)) # <<>> => Len(blocks) >= 1
        /\ \A i \in 1..Len(Updates) :
              Len(Updates[i].body.contentBlocks)
                  = Len(Segments(LegacyContent(Updates[i].row)))

\* a record whose content is a list of one item and a paragraph was updated
\* with two blocks
C34_Witness ==
    /\ script \in Migrations /\ pc = "done" /\ updated = 1
    /\ Len(rows) = 1 /\ LegacyContent(1) = <<"-", " ", "a", "\n", "\n", "a">>
    /\ Len(Updates) = 1 /\ Len(Updates[1].body.contentBlocks) = 2
    /\ skippedNoBlocksProduced = 0

\* the record has neither a documentId nor an id
WithoutId(e) == e.documentId = undefined /\ e.id = undefined

\* the lookup of the current row is answered with a record without id
FindsRecordWithoutId ==
    /\ script \in Importers /\ pc = "lookup" /\ runNo' = runNo
    /\ faults' = faults
    /\ \E i \in 1..Len(store) :
          /\ store[i].data[KeyField(script)] = key
          /\ \A j \in 1..(i - 1) : store[j].data[KeyField(script)] # key
          /\ WithoutId(store[i])

(***************************************************************************)
(* C35: in the seed importers the skip mode is checked before the          *)
(* identifier.  A row whose lookup finds a record without id and without   *)
(* documentId is counted skipped, not failed, when the mode is skip, and   *)
(* counted failed when the mode is update; in either case the row ends     *)
(* there, without a write.                                                 *)
(***************************************************************************)
C35_SkipModeBeforeIdentifier ==
    [][FindsRecordWithoutId =>
          /\ idx' = idx + 1
          /\ Len(requests') = Len(requests) + 1
          /\ requests'[Len(requests')].method = "GET"
          /\ created' = created /\ updated' = updated
          /\ IF UPSERT_MODE = "skip"
             THEN skipped' = skipped + 1 /\ failed' = failed
             ELSE /\ UPSERT_MODE = "update"
                  /\ failed' = failed + 1 /\ skipped' = skipped]_vars

\* a live run in skip mode of one row, whose record exists without an id,
\* has counted the row skipped
C35_Witness ==
    /\ script \in Importers /\ UPSERT_MODE = "skip" /\ ~DRY_RUN
    /\ pc = "done" /\ Len(rows) = 1
    /\ Len(store) = 1 /\ WithoutId(store[1])
    /\ skipped = 1 /\ failed = 0

\* the natural key of a row of the pages or the articles importer
RowKey(row) ==
    IF script = "import-pages" THEN normalizePath(Str(row, "routePath"))
    ELSE articleSlug(row)

\* the row has its required fields
HasRequiredFields(row) ==
    /\ RowKey(row) # <<>>
    /\ IF script = "import-pages" THEN trim(Str(row, "pageName")) # <<>>
       ELSE articleTitle(row) # <<>>

\* how many rows of the input are past their validation
Validated ==
    IF idx = 0 THEN 0
    ELSE IF pc \in RowStates \ {"row"} THEN idx
    ELSE idx - 1

(***************************************************************************)
(* C36: in the pages and the articles importer, after any prefix of the    *)
(* rows the set of seen keys holds exactly the keys of the rows of the     *)
(* prefix that have their required fields (a duplicate adds nothing to     *)
(* the set), whether their remote calls failed or not.                     *)
(***************************************************************************)
C36_SeenKeysAreTheValidatedKeys ==
    script \in {"import-pages", "import-articles"} =>
        seen = { RowKey(rows[j]) :
                    j \in { i \in 1..Validated : HasRequiredFields(rows[i]) } }


\* the five counters of a migration, by the name of the outcome they count
MigrationCounters ==
    [updated |-> updated, skippedNoContent |-> skippedNoContent,
     skippedHasBlocks |-> skippedHasBlocks,
     skippedNoBlocksProduced |-> skippedNoBlocksProduced, failed |-> failed]

\* a migration is done with the record it was at
RecordScanned == script \in Migrations /\ pc \in {"row", "update"} /\ idx' = idx + 1

\* the counter the record e goes to: the first check that applies, the write
\* having succeeded or not when the record came as far as the write
CounterOf(e, written) ==
    IF e.documentId = undefined /\ e.id = undefined THEN "failed"
    ELSE IF trim(e.data.content) = <<>> THEN "skippedNoContent"
    ELSE IF ONLY_WHEN_EMPTY_BLOCKS /\ e.data.contentBlocks # <<>>
    THEN "skippedHasBlocks"
    ELSE IF convertContentToBlocks(e.data.content, BlockPrefix(script)) = <<>>
    THEN "skippedNoBlocksProduced"
    ELSE IF written THEN "updated" ELSE "failed"

\* the records the migration is done with
Scanned == IF idx = 0 THEN 0 ELSE idx - 1

(***************************************************************************)
(* C37: every record an in-place migration scans adds one to exactly one   *)
(* of updated, skippedNoContent, skippedHasBlocks, skippedNoBlocksProduced *)
(* and failed: the counter of the first check that applies, in the order   *)
(* missing id, blank content, blocks that exist (when only empty ones are  *)
(* filled), empty conversion, outcome of the write; and the five counters  *)
(* add up to the number of records scanned so far.                         *)
(***************************************************************************)
C37_OneCounterPerRecord ==
    /\ [](script \in Migrations =>
            updated + skippedNoContent + skippedHasBlocks
                + skippedNoBlocksProduced + failed = Scanned)
    /\ [][RecordScanned =>
             LET c == CounterOf(rows[idx], faults' = faults) IN
             MigrationCounters' =
                 [MigrationCounters EXCEPT ![c] = MigrationCounters[c] + 1]]_vars

C37_Witness ==
    /\ script \in Migrations /\ pc = "done" /\ Len(rows) = 3
    /\ updated = 1 /\ skippedNoContent = 1 /\ skippedHasBlocks = 1
    /\ failed = 0 /\ skippedNoBlocksProduced = 0

(***************************************************************************)
(* C38: normalizePath is idempotent and never returns the empty string:    *)
(* for the path x of every row the pages importer has normalized,          *)
(* normalizePath(normalizePath(x)) = normalizePath(x), and the result      *)
(* begins with a slash.                                                    *)
(***************************************************************************)
C38_NormalizePathIsIdempotent ==
    script = "import-pages" =>
        \A j \in 1..Validated :
            LET n == normalizePath(WrittenPath(rows[j])) IN
            /\ n # <<>>
            /\ Head(n) = "/"
            /\ normalizePath(n) = n

====
